---- MODULE Spec2Model ----
(***************************************************************************)
(* OTA outcome classification and aggregation pipeline.                    *)
(*                                                                         *)
(* Collections of the store are sequences in natural (insertion) order, so *)
(* that findOne returns the first matching document.  Version and status   *)
(* strings are sequences of one-character strings, so that split('.') and  *)
(* parseInt are computed, not assumed.                                     *)
(***************************************************************************)
EXTENDS Integers, Sequences, FiniteSets, TLC

\* ------------------------------------------------------------------ bounds
MaxReports == 2
MaxUpgradeReports == 4
MaxIngests == 2
MaxConcurrent == 3
MaxPolicyReports == 2
MaxResolves == 2
MaxConfigWrites == 2
MaxConcConfigs == 2
MaxRecordOps == 3
MaxDashReports == 2
MaxClock == 3
TicksPerDay == 2

\* ------------------------------------------------------------ input domains
Pics == {"P1", "P2"}
Devices == {"D1", "D2"}

V_1_0 == <<"1", ".", "0">>
V_2_0 == <<"2", ".", "0">>
Versions == {V_1_0, V_2_0}

\* versions exercising the comparison: the "0.0" convention, multi-digit,
\* missing and non-numeric segments
V_0_0 == <<"0", ".", "0">>
V_1_2 == <<"1", ".", "2">>
V_1_10 == <<"1", ".", "1", "0">>
V_1 == <<"1">>
V_1_x == <<"1", ".", "x">>
PolicyVersions == {V_1_0, V_2_0, V_0_0, V_1_2, V_1_10, V_1, V_1_x}

S_2 == <<"2">>
S_0 == <<"0">>
S_5 == <<"5">>
S_9 == <<"9">>
Statuses == {S_2, S_0, S_5, S_9}
S_1 == <<"1">>
S_3 == <<"3">>

ReprogInputs == {"true", "false", ""}

\* Status configuration of the fleet: D1 is configured, D2 has no document.
StatusCodesD1 ==
    << [code |-> 2, badge |-> "success"],
       [code |-> 0, badge |-> "failure"],
       [code |-> 5, badge |-> "other"] >>

\* A configuration an operator may store: every code carries the badge its
\* entry names, the codes 0 to 3 included.
StatusCodesRemapped ==
    << [code |-> 2, badge |-> "failure"],
       [code |-> 0, badge |-> "success"],
       [code |-> 1, badge |-> "other"],
       [code |-> 3, badge |-> "success"],
       [code |-> 5, badge |-> "other"] >>

\* ------------------------------------------------------------------ helpers
Digits == {"0", "1", "2", "3", "4", "5", "6", "7", "8", "9"}

DigitVal(c) ==
    CASE c = "0" -> 0 [] c = "1" -> 1 [] c = "2" -> 2 [] c = "3" -> 3
      [] c = "4" -> 4 [] c = "5" -> 5 [] c = "6" -> 6 [] c = "7" -> 7
      [] c = "8" -> 8 [] c = "9" -> 9

DigitChar(n) ==
    CASE n = 0 -> "0" [] n = 1 -> "1" [] n = 2 -> "2" [] n = 3 -> "3"
      [] n = 4 -> "4" [] n = 5 -> "5" [] n = 6 -> "6" [] n = 7 -> "7"
      [] n = 8 -> "8" [] n = 9 -> "9"

RECURSIVE LeadingDigits(_)
LeadingDigits(s) ==
    IF s = <<>> \/ Head(s) \notin Digits THEN <<>>
    ELSE <<Head(s)>> \o LeadingDigits(Tail(s))

RECURSIVE DigitsValue(_, _)
DigitsValue(s, acc) ==
    IF s = <<>> THEN acc ELSE DigitsValue(Tail(s), acc * 10 + DigitVal(Head(s)))

RECURSIVE TrimLeft(_)
TrimLeft(s) == IF s # <<>> /\ Head(s) = " " THEN TrimLeft(Tail(s)) ELSE s

\* parseInt(s, 10): leading blanks, an optional sign, then the leading digits;
\* NaN when there is no digit.
parseInt(s) ==
    LET t == TrimLeft(s)
        neg == t # <<>> /\ Head(t) = "-"
        u == IF t # <<>> /\ Head(t) \in {"-", "+"} THEN Tail(t) ELSE t
        d == LeadingDigits(u)
    IN IF d = <<>> THEN [nan |-> TRUE, val |-> 0]
       ELSE [nan |-> FALSE, val |-> IF neg THEN 0 - DigitsValue(d, 0) ELSE DigitsValue(d, 0)]

RECURSIVE NatToString(_)
NatToString(n) ==
    IF n < 10 THEN <<DigitChar(n)>> ELSE NatToString(n \div 10) \o <<DigitChar(n % 10)>>

\* Number.prototype.toString for the integers a configuration holds
NumToString(n) == IF n < 0 THEN <<"-">> \o NatToString(0 - n) ELSE NatToString(n)

\* String.prototype.split('.')
RECURSIVE SplitDot(_, _)
SplitDot(s, cur) ==
    IF s = <<>> THEN <<cur>>
    ELSE IF Head(s) = "." THEN <<cur>> \o SplitDot(Tail(s), <<>>)
    ELSE SplitDot(Tail(s), Append(cur, Head(s)))

RECURSIVE TrimRight(_)
TrimRight(s) ==
    IF s # <<>> /\ s[Len(s)] = " " THEN TrimRight(SubSeq(s, 1, Len(s) - 1)) ELSE s

Trim(s) == TrimRight(TrimLeft(s))

Max(a, b) == IF a >= b THEN a ELSE b

\* mutant: a segment is read by its first character only
normalizeVersionParts_FirstDigit(version) ==
    IF Trim(version) = <<>> THEN <<0>>
    ELSE LET parts == SplitDot(version, <<>>)
         IN [i \in 1..Len(parts) |->
                IF parts[i] # <<>> /\ Head(parts[i]) \in Digits
                THEN DigitVal(Head(parts[i])) ELSE 0]

normalizeVersionParts(version) ==
    IF Trim(version) = <<>> THEN <<0>>
    ELSE LET parts == SplitDot(version, <<>>)
         IN [i \in 1..Len(parts) |->
                LET num == parseInt(parts[i]) IN IF num.nan THEN 0 ELSE num.val]

RECURSIVE compareFrom(_, _, _, _)
compareFrom(prevParts, updatedParts, i, maxLength) ==
    IF i > maxLength THEN 0
    ELSE LET prev == IF i <= Len(prevParts) THEN prevParts[i] ELSE 0
             updated == IF i <= Len(updatedParts) THEN updatedParts[i] ELSE 0
         IN IF prev > updated THEN 1
            ELSE IF prev < updated THEN -1
            ELSE compareFrom(prevParts, updatedParts, i + 1, maxLength)

\* -1: previousVersion < updatedVersion, 0: equal, 1: previousVersion > updatedVersion
compareVersions(previousVersion, updatedVersion) ==
    LET prevParts == normalizeVersionParts(previousVersion)
        updatedParts == normalizeVersionParts(updatedVersion)
    IN compareFrom(prevParts, updatedParts, 1, Max(Len(prevParts), Len(updatedParts)))

parseBoolean(value) ==
    LET normalized == value
    IN IF normalized = "true" THEN TRUE
       ELSE IF normalized = "false" THEN FALSE
       ELSE IF normalized = "1" THEN TRUE
       ELSE IF normalized = "0" THEN FALSE
       ELSE value # ""

\* -------------------------------------------------------------------- state
VARIABLES
    statusMgmt,   \* StatusManagement collection: <<[deviceId, statusCodes]>>
    dashDocs,     \* DashboardStats collection: <<[deviceId, date, success, failure, other]>>
    otaUpdates,   \* per-report OTAUpdate documents written by /report
    units,        \* Unit documents (pic_id, updatedVersion, statusEntries, counters)
    deviceStats,  \* Device documents: otaStats and espStats of each device
    clock,        \* server time in ticks
    resp,         \* status code of the last response sent
    log,          \* history of accepted /report requests (observer only)
    procs,        \* requests in flight, one slot per concurrent handler
    projects,     \* Project collection: the ids of the stored projects
    reply,        \* body of the last answer of a read endpoint (observer only)
    timezone      \* local time of the server minus UTC, in ticks

vars == <<statusMgmt, dashDocs, otaUpdates, units, deviceStats, clock, resp, log, procs,
          projects, reply, timezone>>

NoReply == [endpoint |-> "none"]

Procs == {1, 2}

Idle == [pc |-> "idle"]

\* local midnight of the day a tick falls in
localMidnight(t) == t - (t % TicksPerDay)

getTodayDate == localMidnight(clock)

\* index of the first element of seq satisfying Test, 0 when there is none
FirstIndex(seq, Test(_)) ==
    IF \E i \in 1..Len(seq) : Test(seq[i])
    THEN CHOOSE i \in 1..Len(seq) : Test(seq[i]) /\ \A j \in 1..(i - 1) : ~Test(seq[j])
    ELSE 0

CountWhere(seq, Test(_)) == Cardinality({i \in 1..Len(seq) : Test(seq[i])})

\* ----------------------------------------------------- /report: validation
\* String(value).trim() === '' for the five required fields and reprogramming
missingFields(pic_id, deviceId, status, previousVersion, updatedVersion, reprogrammingInput) ==
    \/ pic_id = ""
    \/ deviceId = ""
    \/ Trim(status) = <<>>
    \/ Trim(previousVersion) = <<>>
    \/ Trim(updatedVersion) = <<>>
    \/ reprogrammingInput = ""

\* StatusManagement.findOne({ deviceId })
findStatusManagement(coll, deviceId) ==
    FirstIndex(coll, LAMBDA d : d.deviceId = deviceId)

\* statusCodes.find(sc => sc.code.toString() === status.toString())
findStatusCode(statusCodes, status) ==
    FirstIndex(statusCodes, LAMBDA sc : NumToString(sc.code) = status)

\* ------------------------------------------------- /report: classification
\* mutant: equal versions turn any resolved badge into other
finalBadgeOf_EqualIsOther(baseBadge, versionComparison, isReprogramming) ==
    IF (isReprogramming /\ baseBadge = "success") \/ (~isReprogramming /\ versionComparison = 0)
    THEN "other" ELSE baseBadge

finalBadgeOf(baseBadge, versionComparison, isReprogramming) ==
    LET isVersionEqual == versionComparison = 0
        shouldHandleReprogrammingSuccess == isReprogramming /\ baseBadge = "success"
        alreadyUpdatedCase == ~isReprogramming /\ isVersionEqual /\ baseBadge = "other"
    IN IF shouldHandleReprogrammingSuccess \/ alreadyUpdatedCase THEN "other" ELSE baseBadge

needsDashboardUpdate(baseBadge, versionComparison, isReprogramming) ==
    LET isVersionUpgrade == versionComparison = -1
        isVersionEqual == versionComparison = 0
        shouldHandleReprogrammingSuccess == isReprogramming /\ baseBadge = "success"
        alreadyUpdatedCase == ~isReprogramming /\ isVersionEqual /\ baseBadge = "other"
        lowerToUpper == ~isReprogramming /\ isVersionUpgrade
    IN shouldHandleReprogrammingSuccess \/ alreadyUpdatedCase \/ lowerToUpper

\* everything the handler derives from the request before it touches the store
classify(statusCode, previousVersion, updatedVersion, reprogrammingInput) ==
    LET baseBadge == statusCode.badge
        isReprogramming == parseBoolean(reprogrammingInput)
        versionComparison == compareVersions(Trim(previousVersion), Trim(updatedVersion))
    IN [ baseBadge |-> baseBadge,
         finalBadge |-> finalBadgeOf(baseBadge, versionComparison, isReprogramming),
         versionComparison |-> versionComparison,
         isReprogramming |-> isReprogramming,
         needsDashboardUpdate |-> needsDashboardUpdate(baseBadge, versionComparison, isReprogramming) ]

\* --------------------------------------------------- /report: daily buckets
\* DashboardStats.findOne({ deviceId, 'stats.date': { $gte: startOfDay, $lt: endOfDay } })
findDashboardStats(coll, deviceId, date) ==
    LET startOfDay == localMidnight(date)
        endOfDay == startOfDay + TicksPerDay
    IN FirstIndex(coll, LAMBDA d :
           d.deviceId = deviceId /\ d.date >= startOfDay /\ d.date < endOfDay)

newDashboardStats(deviceId, date) ==
    [ deviceId |-> deviceId, date |-> localMidnight(date),
      success |-> <<>>, failure |-> <<>>, other |-> <<>> ]

\* the document the handler works on: the stored one (date re-normalised) or a new one
findOrCreateDashboardStats(coll, deviceId, date) ==
    LET idx == findDashboardStats(coll, deviceId, date)
    IN IF idx = 0 THEN [idx |-> 0, doc |-> newDashboardStats(deviceId, date)]
       ELSE [idx |-> idx, doc |-> [coll[idx] EXCEPT !.date = localMidnight(date)]]

\* addRecord(bucket, overrides): the record pushed to a bucket
makeRecord(bucket, pic_id, deviceId, c, previousVersion, updatedVersion, timestamp) ==
    [ picID |-> pic_id, deviceId |-> deviceId, badge |-> c.finalBadge,
      previousVersion |-> Trim(previousVersion), updatedVersion |-> Trim(updatedVersion),
      reprogramming |-> c.isReprogramming, timestamp |-> timestamp,
      recovered |-> IF bucket = "failure" THEN FALSE ELSE TRUE ]

\* mutant: the search tests the recovered flag with the wrong polarity
findUnrecoveredFailure_WrongFlag(failure, pic_id, deviceId) ==
    FirstIndex(failure, LAMBDA r :
        r.picID = pic_id /\ r.deviceId = deviceId /\ r.recovered = TRUE)

\* records.failure.find(r => r.picID === pic_id && r.deviceId === deviceId && r.recovered === false)
findUnrecoveredFailure(failure, pic_id, deviceId) ==
    FirstIndex(failure, LAMBDA r :
        r.picID = pic_id /\ r.deviceId = deviceId /\ r.recovered = FALSE)

\* mutant: the failure branch appends without looking for an existing failure
bucketEdit_NoDedup(doc, c, pic_id, deviceId) ==
    LET lowerToUpper == ~c.isReprogramming /\ c.versionComparison = -1
        unrecovered == FirstIndex(doc.failure, LAMBDA r :
            r.picID = pic_id /\ r.deviceId = deviceId /\ r.recovered = FALSE)
    IN IF c.isReprogramming /\ c.baseBadge = "success" THEN [push |-> "other", recoverIdx |-> 0]
       ELSE IF ~c.isReprogramming /\ c.versionComparison = 0 /\ c.baseBadge = "other"
            THEN [push |-> "other", recoverIdx |-> 0]
       ELSE IF lowerToUpper THEN
            IF c.finalBadge = "success" THEN [push |-> "success", recoverIdx |-> unrecovered]
            ELSE IF c.finalBadge = "failure" THEN [push |-> "failure", recoverIdx |-> 0]
            ELSE [push |-> "other", recoverIdx |-> 0]
       ELSE [push |-> "none", recoverIdx |-> 0]

\* The bucket the handler pushes to ("none": nothing pushed) and the failure
\* record it flags recovered (0: none), decided on the document it loaded.
bucketEdit(doc, c, pic_id, deviceId) ==
    LET shouldHandleReprogrammingSuccess == c.isReprogramming /\ c.baseBadge = "success"
        alreadyUpdatedCase ==
            ~c.isReprogramming /\ c.versionComparison = 0 /\ c.baseBadge = "other"
        lowerToUpper == ~c.isReprogramming /\ c.versionComparison = -1
        unrecovered == findUnrecoveredFailure(doc.failure, pic_id, deviceId)
    IN IF shouldHandleReprogrammingSuccess THEN [push |-> "other", recoverIdx |-> 0]
       ELSE IF alreadyUpdatedCase THEN [push |-> "other", recoverIdx |-> 0]
       ELSE IF lowerToUpper THEN
            IF c.finalBadge = "success" THEN [push |-> "success", recoverIdx |-> unrecovered]
            ELSE IF c.finalBadge = "failure" THEN
                 IF unrecovered = 0 THEN [push |-> "failure", recoverIdx |-> 0]
                 ELSE [push |-> "none", recoverIdx |-> 0]
            ELSE [push |-> "other", recoverIdx |-> 0]
       ELSE [push |-> "none", recoverIdx |-> 0]

dashboardModified(edit) == edit.push # "none" \/ edit.recoverIdx # 0

\* mutant: a record meant for the other bucket lands in the success bucket
pushTo_OtherAsSuccess(doc, bucket, record) ==
    CASE bucket = "success" -> [doc EXCEPT !.success = Append(@, record)]
      [] bucket = "failure" -> [doc EXCEPT !.failure = Append(@, record)]
      [] bucket = "other" -> [doc EXCEPT !.success = Append(@, record)]
      [] bucket = "none" -> doc

pushTo(doc, bucket, record) ==
    CASE bucket = "success" -> [doc EXCEPT !.success = Append(@, record)]
      [] bucket = "failure" -> [doc EXCEPT !.failure = Append(@, record)]
      [] bucket = "other" -> [doc EXCEPT !.other = Append(@, record)]
      [] bucket = "none" -> doc

\* mutant: the recovered failure record is removed instead of flagged
flagRecovered_Removes(doc, idx) ==
    IF idx = 0 \/ idx > Len(doc.failure) THEN doc
    ELSE [doc EXCEPT !.failure =
             SubSeq(doc.failure, 1, idx - 1) \o SubSeq(doc.failure, idx + 1, Len(doc.failure))]

flagRecovered(doc, idx) ==
    IF idx = 0 \/ idx > Len(doc.failure) THEN doc
    ELSE [doc EXCEPT !.failure[idx].recovered = TRUE]

\* mutant: the success record is appended but the failure is left unrecovered
applyEdit_PushOnly(doc, edit, record) ==
    CASE edit.push = "success" -> [doc EXCEPT !.success = Append(@, record)]
      [] edit.push = "failure" -> [doc EXCEPT !.failure = Append(@, record)]
      [] edit.push = "other" -> [doc EXCEPT !.other = Append(@, record)]
      [] edit.push = "none" -> doc

\* the in-memory document after the handler's edits
applyEdit(doc, edit, record) == pushTo(flagRecovered(doc, edit.recoverIdx), edit.push, record)

\* OTAUpdate.updateMany({ pic_id, deviceId, badge: 'failure', recovered: false },
\*                      { $set: { recovered: true } })
updateManyRecovered(coll, pic_id, deviceId) ==
    [i \in 1..Len(coll) |->
        IF coll[i].pic_id = pic_id /\ coll[i].deviceId = deviceId
           /\ coll[i].badge = "failure" /\ coll[i].recovered = FALSE
        THEN [coll[i] EXCEPT !.recovered = TRUE] ELSE coll[i]]

newOtaUpdate(pic_id, deviceId, c) ==
    [ pic_id |-> pic_id, deviceId |-> deviceId, badge |-> c.finalBadge,
      recovered |-> IF c.finalBadge = "failure" THEN FALSE ELSE TRUE ]

logEntry(pic_id, deviceId, c, previousVersion, updatedVersion, timestamp, push) ==
    [ pic_id |-> pic_id, deviceId |-> deviceId, badge |-> c.finalBadge, push |-> push,
      baseBadge |-> c.baseBadge,
      previousVersion |-> Trim(previousVersion), updatedVersion |-> Trim(updatedVersion),
      versionComparison |-> c.versionComparison, isReprogramming |-> c.isReprogramming,
      timestamp |-> timestamp, date |-> localMidnight(timestamp) ]

\* computeRecordCounts (read side)
computeRecordCounts(doc) ==
    LET activeFailures == CountWhere(doc.failure, LAMBDA r : r.recovered = FALSE)
    IN [ success |-> Len(doc.success), failure |-> activeFailures, other |-> Len(doc.other),
         total |-> Len(doc.success) + activeFailures + Len(doc.other) ]

\* ============================================ attempt recorder (POST /)
\* String.prototype.toLowerCase, one character
lowerChar(c) ==
    CASE c = "A" -> "a" [] c = "B" -> "b" [] c = "C" -> "c" [] c = "D" -> "d"
      [] c = "E" -> "e" [] c = "F" -> "f" [] c = "G" -> "g" [] c = "H" -> "h"
      [] c = "I" -> "i" [] c = "J" -> "j" [] c = "K" -> "k" [] c = "L" -> "l"
      [] c = "M" -> "m" [] c = "N" -> "n" [] c = "O" -> "o" [] c = "P" -> "p"
      [] c = "Q" -> "q" [] c = "R" -> "r" [] c = "S" -> "s" [] c = "T" -> "t"
      [] c = "U" -> "u" [] c = "V" -> "v" [] c = "W" -> "w" [] c = "X" -> "x"
      [] c = "Y" -> "y" [] c = "Z" -> "z" [] OTHER -> c

toLowerCase(s) == [i \in 1..Len(s) |-> lowerChar(s[i])]

\* String.prototype.includes
includes(s, sub) ==
    \E i \in 1..(Len(s) - Len(sub) + 1) : SubSeq(s, i, i + Len(sub) - 1) = sub

includesAny(s, subs) == \E sub \in subs : includes(s, sub)

AlreadyUpdatedPhrases ==
    { <<"a", "l", "r", "e", "a", "d", "y", " ", "u", "p", "d", "a", "t", "e", "d">>,
      <<"a", "l", "r", "e", "a", "d", "y", " ", "u", "p", " ", "t", "o", " ", "d", "a", "t", "e">>,
      <<"n", "o", " ", "u", "p", "d", "a", "t", "e", " ", "n", "e", "e", "d", "e", "d">>,
      <<"f", "i", "r", "m", "w", "a", "r", "e", " ", "a", "l", "r", "e", "a", "d", "y", " ", "c", "u", "r", "r", "e", "n", "t">>,
      <<"v", "e", "r", "s", "i", "o", "n", " ", "a", "l", "r", "e", "a", "d", "y", " ", "i", "n", "s", "t", "a", "l", "l", "e", "d">>,
      <<"n", "o", " ", "u", "p", "d", "a", "t", "e", " ", "r", "e", "q", "u", "i", "r", "e", "d">>,
      <<"c", "u", "r", "r", "e", "n", "t", " ", "v", "e", "r", "s", "i", "o", "n", " ", "r", "u", "n", "n", "i", "n", "g">> }

UpToDatePhrases ==
    { <<"u", "p", " ", "t", "o", " ", "d", "a", "t", "e">>,
      <<"c", "u", "r", "r", "e", "n", "t", " ", "v", "e", "r", "s", "i", "o", "n">> }

SuccessPhrases ==
    { <<"s", "u", "c", "c", "e", "s", "s">>,
      <<"u", "p", "d", "a", "t", "e", "d", " ", "s", "u", "c", "c", "e", "s", "s", "f", "u", "l", "l", "y">>,
      <<"u", "p", "d", "a", "t", "e", " ", "c", "o", "m", "p", "l", "e", "t", "e">>,
      <<"u", "p", "d", "a", "t", "e", " ", "f", "i", "n", "i", "s", "h", "e", "d">>,
      <<"i", "n", "s", "t", "a", "l", "l", "a", "t", "i", "o", "n", " ", "c", "o", "m", "p", "l", "e", "t", "e">>,
      <<"f", "i", "r", "m", "w", "a", "r", "e", " ", "i", "n", "s", "t", "a", "l", "l", "e", "d">>,
      <<"u", "p", "d", "a", "t", "e", " ", "s", "u", "c", "c", "e", "s", "s", "f", "u", "l">> }

FailurePhrases ==
    { <<"f", "a", "i", "l", "e", "d">>,
      <<"e", "r", "r", "o", "r">>,
      <<"u", "p", "d", "a", "t", "e", " ", "f", "a", "i", "l", "e", "d">> }

InProgressPhrases ==
    { <<"i", "n", " ", "p", "r", "o", "g", "r", "e", "s", "s">>,
      <<"p", "e", "n", "d", "i", "n", "g">>,
      <<"d", "o", "w", "n", "l", "o", "a", "d", "i", "n", "g">>,
      <<"i", "n", "s", "t", "a", "l", "l", "i", "n", "g">> }

\* the badge the text of the status suggests, before the configuration is read
heuristicBadge(rawStatus) ==
    LET message == toLowerCase(rawStatus)
    IN IF includesAny(message, AlreadyUpdatedPhrases) THEN "success"
       ELSE IF includesAny(message, UpToDatePhrases) THEN "success"
       ELSE IF includesAny(message, SuccessPhrases) THEN "success"
       ELSE IF includesAny(message, FailurePhrases) THEN "failure"
       ELSE IF includesAny(message, InProgressPhrases) THEN "other"
       ELSE "other"

\* resolveStatusForDevice: heuristic, then the configured entry, then the
\* numeric fallback (2 or 3: success, 0 or 1: failure)
resolveStatusForDevice(coll, deviceId, rawStatus) ==
    LET sm == findStatusManagement(coll, deviceId)
        code == parseInt(rawStatus)
        match == IF sm # 0 /\ ~code.nan
                 THEN FirstIndex(coll[sm].statusCodes, LAMBDA sc : sc.code = code.val)
                 ELSE 0
        configured == IF match # 0 THEN coll[sm].statusCodes[match].badge
                      ELSE heuristicBadge(rawStatus)
    IN IF ~code.nan /\ code.val \in {2, 3} THEN "success"
       ELSE IF ~code.nan /\ code.val \in {0, 1} THEN "failure"
       ELSE configured

\* entry.badge === 'success' || code is 2 or 3
countsAsSuccess(entry) ==
    \/ entry.badge = "success"
    \/ LET code == parseInt(entry.status) IN ~code.nan /\ code.val \in {2, 3}

\* entry.badge === 'failure' || code is a number other than 2 and 3
countsAsFailure(entry) ==
    \/ entry.badge = "failure"
    \/ LET code == parseInt(entry.status) IN ~code.nan /\ code.val \notin {2, 3}

nextFinalStatus(finalStatus, status, badge) ==
    IF badge = "success" THEN "success"
    ELSE IF badge = "failure" THEN "failed"
    ELSE LET latestCode == parseInt(status)
         IN IF latestCode.nan THEN finalStatus
            ELSE IF latestCode.val \in {2, 3} THEN "success" ELSE "failed"

\* OTAUpdateSchema.methods.addStatusEntry
addStatusEntry(unit, status, entryDate, badge) ==
    LET entry == [ status |-> status, badge |-> badge, date |-> entryDate,
                   attemptNumber |-> Len(unit.statusEntries) + 1 ]
        entries == Append(unit.statusEntries, entry)
    IN [ unit EXCEPT
           !.statusEntries = entries,
           !.totalAttempts = Len(entries),
           !.successAttempts = CountWhere(entries, countsAsSuccess),
           !.failureAttempts = CountWhere(entries, countsAsFailure),
           !.finalStatus = nextFinalStatus(unit.finalStatus, status, badge) ]

\* new OTAUpdate({ pic_id, deviceId, previousVersion, updatedVersion, date })
newUnit(pic_id, deviceId, previousVersion, updatedVersion) ==
    [ pic_id |-> pic_id, deviceId |-> deviceId,
      previousVersion |-> previousVersion, updatedVersion |-> updatedVersion,
      statusEntries |-> <<>>, finalStatus |-> "pending",
      totalAttempts |-> 1, successAttempts |-> 0, failureAttempts |-> 0 ]

\* OTAUpdate.findOne({ pic_id, updatedVersion })
findUnit(coll, pic_id, updatedVersion) ==
    FirstIndex(coll, LAMBDA u : u.pic_id = pic_id /\ u.updatedVersion = updatedVersion)

\* ------------------------------------------------------ DeviceStatsService
zeroOtaStats ==
    [ totalPics |-> 0, successfulPics |-> 0, failedPics |-> 0, pendingPics |-> 0,
      totalAttempts |-> 0, successfulAttempts |-> 0, failedAttempts |-> 0 ]

emptyEspStats ==
    [ totalPicsWithSuccess |-> 0, totalPicsWithFailure |-> 0,
      picsWithSuccess |-> <<>>, picsWithFailure |-> <<>>, byFirmwareVersion |-> <<>> ]

\* OTAUpdate.find({ deviceId })
unitsOfDevice(coll, deviceId) == SelectSeq(coll, LAMBDA u : u.deviceId = deviceId)

RECURSIVE SumSeq(_)
SumSeq(seq) == IF seq = <<>> THEN 0 ELSE Head(seq) + SumSeq(Tail(seq))

SumOver(seq, F(_)) == SumSeq([i \in 1..Len(seq) |-> F(seq[i])])

\* updateDeviceStats: the counters stored in Device.otaStats
computeOtaStats(otaUpdatesOfDevice) ==
    [ totalPics |-> Len(otaUpdatesOfDevice),
      successfulPics |-> CountWhere(otaUpdatesOfDevice, LAMBDA u : u.finalStatus = "success"),
      failedPics |-> CountWhere(otaUpdatesOfDevice, LAMBDA u : u.finalStatus = "failed"),
      pendingPics |-> CountWhere(otaUpdatesOfDevice, LAMBDA u : u.finalStatus = "pending"),
      totalAttempts |-> SumOver(otaUpdatesOfDevice, LAMBDA u : u.totalAttempts),
      successfulAttempts |-> SumOver(otaUpdatesOfDevice, LAMBDA u : u.successAttempts),
      failedAttempts |-> SumOver(otaUpdatesOfDevice, LAMBDA u : u.failureAttempts) ]

\* mutant: the element is added even when it is already there
addUnique_Always(seq, x) == Append(seq, x)

\* Set.prototype.add on an insertion-ordered set
addUnique(seq, x) == IF \E i \in 1..Len(seq) : seq[i] = x THEN seq ELSE Append(seq, x)

RECURSIVE uniqueOf(_, _)
uniqueOf(seq, acc) ==
    IF seq = <<>> THEN acc ELSE uniqueOf(Tail(seq), addUnique(acc, Head(seq)))

picIdsWhere(updates, Test(_)) ==
    uniqueOf([i \in 1..Len(SelectSeq(updates, Test)) |-> SelectSeq(updates, Test)[i].pic_id], <<>>)

\* updateESPStats: the value stored in Device.espStats
computeEspStats(otaUpdatesOfDevice) ==
    LET versions == uniqueOf([i \in 1..Len(otaUpdatesOfDevice) |->
                                 otaUpdatesOfDevice[i].updatedVersion], <<>>)
        ofVersion(v) == SelectSeq(otaUpdatesOfDevice, LAMBDA u : u.updatedVersion = v)
        succ(v) == picIdsWhere(ofVersion(v), LAMBDA u : u.successAttempts > 0)
        fail(v) == picIdsWhere(ofVersion(v), LAMBDA u : u.failureAttempts > 0)
        byVersion == [i \in 1..Len(versions) |->
            [ version |-> versions[i],
              picsWithSuccess |-> Len(succ(versions[i])),
              picsWithFailure |-> Len(fail(versions[i])),
              totalPics |-> Len(uniqueOf(succ(versions[i]) \o fail(versions[i]), <<>>)),
              picIdsWithSuccess |-> succ(versions[i]),
              picIdsWithFailure |-> fail(versions[i]) ]]
    IN [ totalPicsWithSuccess |-> SumOver(byVersion, LAMBDA b : b.picsWithSuccess),
         totalPicsWithFailure |-> SumOver(byVersion, LAMBDA b : b.picsWithFailure),
         picsWithSuccess |-> picIdsWhere(otaUpdatesOfDevice, LAMBDA u : u.successAttempts > 0),
         picsWithFailure |-> picIdsWhere(otaUpdatesOfDevice, LAMBDA u : u.failureAttempts > 0),
         byFirmwareVersion |-> byVersion ]

\* Device.findOneAndUpdate({ deviceId }, { $set: { otaStats } })
withOtaStats(stats, coll, deviceId) ==
    IF deviceId \notin DOMAIN stats THEN stats
    ELSE [stats EXCEPT ![deviceId].otaStats = computeOtaStats(unitsOfDevice(coll, deviceId))]

\* updateESPStats returns early, leaving espStats as it was, when the device has no record
withEspStats(stats, coll, deviceId) ==
    IF deviceId \notin DOMAIN stats \/ unitsOfDevice(coll, deviceId) = <<>> THEN stats
    ELSE [stats EXCEPT ![deviceId].espStats = computeEspStats(unitsOfDevice(coll, deviceId))]

\* ------------------------------------------------------------ initial state
PicInputs == Pics \cup {""}
StatusInputs == Statuses \cup {<<>>}

\* save() of a loaded document sends the changed paths only: a changed array is
\* written whole ("set", a path marked modified) or as an atomic append ("push").
SaveModes == {"set", "push"}

Init ==
    /\ statusMgmt = << [deviceId |-> "D1", statusCodes |-> StatusCodesD1] >>
    /\ dashDocs = <<>>
    /\ otaUpdates = <<>>
    /\ units = <<>>
    /\ deviceStats = [d \in Devices |-> [otaStats |-> zeroOtaStats, espStats |-> emptyEspStats]]
    /\ clock = 0
    /\ resp = [p \in Procs |-> "none"]
    /\ log = <<>>
    /\ procs = [p \in Procs |-> Idle]
    /\ projects = {}
    /\ reply = NoReply
    /\ timezone = 0

NoneInFlight == \A p \in Procs : procs[p].pc = "idle"

\* time passes: by one tick, or up to the next local midnight
Tick ==
    /\ clock < MaxClock
    /\ clock' = clock + 1
    /\ UNCHANGED <<timezone, projects, reply, statusMgmt, dashDocs, otaUpdates, units, deviceStats, resp, log, procs>>

NextDay ==
    /\ localMidnight(clock) + TicksPerDay <= MaxClock
    /\ clock' = localMidnight(clock) + TicksPerDay
    /\ UNCHANGED <<timezone, projects, reply, statusMgmt, dashDocs, otaUpdates, units, deviceStats, resp, log, procs>>

\* ------------------------------------------- POST /report, run to completion
\* the reason a request is rejected, "" when it is accepted
rejection(pic_id, deviceId, status, previousVersion, updatedVersion, reprogrammingInput) ==
    IF missingFields(pic_id, deviceId, status, previousVersion, updatedVersion, reprogrammingInput)
    THEN "400"
    ELSE LET sm == findStatusManagement(statusMgmt, deviceId)
         IN IF sm = 0 THEN "404 config"
            ELSE IF findStatusCode(statusMgmt[sm].statusCodes, status) = 0 THEN "404 code"
            ELSE ""

statusCodeOf(deviceId, status) ==
    LET statusCodes == statusMgmt[findStatusManagement(statusMgmt, deviceId)].statusCodes
    IN statusCodes[findStatusCode(statusCodes, status)]

\* insert of a new daily document: the collection accepts it whatever it
\* already holds (no uniqueness constraint over device and day)
insertDashboardStats(coll, doc) == Append(coll, doc)

\* the collection after save() of the edited document, handler not interleaved
savedDashboard(coll, found, edit, record) ==
    IF ~dashboardModified(edit) THEN coll
    ELSE IF found.idx = 0 THEN insertDashboardStats(coll, applyEdit(found.doc, edit, record))
    ELSE [coll EXCEPT ![found.idx] = applyEdit(found.doc, edit, record)]

\* mutant: the report is stored before it is validated
Report_SavesBeforeValidation(pic_id, deviceId, status, previousVersion, updatedVersion, reprogrammingInput) ==
    LET why == rejection(pic_id, deviceId, status, previousVersion, updatedVersion,
                         reprogrammingInput)
    IN /\ NoneInFlight
       /\ Len(otaUpdates) < MaxReports
       /\ otaUpdates' = Append(otaUpdates, [ pic_id |-> pic_id, deviceId |-> deviceId,
                                             badge |-> "other", recovered |-> TRUE ])
       /\ resp' = [resp EXCEPT ![1] = IF why = "" THEN "200" ELSE why]
       /\ UNCHANGED <<timezone, projects, reply, statusMgmt, dashDocs, units, deviceStats, clock, log, procs>>

Report(pic_id, deviceId, status, previousVersion, updatedVersion, reprogrammingInput) ==
    LET why == rejection(pic_id, deviceId, status, previousVersion, updatedVersion,
                         reprogrammingInput)
    IN /\ NoneInFlight
       /\ IF why # ""
          THEN /\ resp' = [resp EXCEPT ![1] = why]
               /\ UNCHANGED <<dashDocs, otaUpdates, log>>
          ELSE LET c == classify(statusCodeOf(deviceId, status), previousVersion,
                                 updatedVersion, reprogrammingInput)
                   timestamp == clock
                   found == findOrCreateDashboardStats(dashDocs, deviceId, getTodayDate)
                   edit == IF c.needsDashboardUpdate
                           THEN bucketEdit(found.doc, c, pic_id, deviceId)
                           ELSE [push |-> "none", recoverIdx |-> 0]
                   record == makeRecord(edit.push, pic_id, deviceId, c, previousVersion,
                                        updatedVersion, timestamp)
                   saved == Append(otaUpdates, newOtaUpdate(pic_id, deviceId, c))
               IN /\ otaUpdates' = IF edit.recoverIdx # 0
                                   THEN updateManyRecovered(saved, pic_id, deviceId)
                                   ELSE saved
                  /\ dashDocs' = savedDashboard(dashDocs, found, edit, record)
                  /\ log' = Append(log, logEntry(pic_id, deviceId, c, previousVersion,
                                                  updatedVersion, timestamp, edit.push))
                  /\ resp' = [resp EXCEPT ![1] = "200"]
       /\ UNCHANGED <<timezone, projects, reply, statusMgmt, units, deviceStats, clock, procs>>

\* any request a client can send
ReportAny ==
    /\ Len(log) < MaxReports
    /\ \E pic_id \in PicInputs, deviceId \in Devices, status \in StatusInputs,
          previousVersion \in Versions, updatedVersion \in Versions,
          reprogrammingInput \in ReprogInputs :
           Report(pic_id, deviceId, status, previousVersion, updatedVersion, reprogrammingInput)

\* a unit of D1 reporting the outcome of an upgrade from 1.0 to 2.0
UpgradeReport ==
    /\ Len(log) < MaxUpgradeReports
    /\ \E pic_id \in Pics, status \in {S_2, S_0, S_5} :
           Report(pic_id, "D1", status, V_1_0, V_2_0, "false")

Next ==
    \/ NextDay
    \/ ReportAny

Spec == Init /\ [][Next]_vars

NextUpgrade ==
    \/ NextDay
    \/ UpgradeReport

SpecUpgrade == Init /\ [][NextUpgrade]_vars

\* a unit of D1 reporting any resolved badge over any pair of versions, with
\* and without the reprogramming flag
PolicyReport ==
    /\ Len(log) < MaxPolicyReports
    /\ \E status \in {S_2, S_0, S_5}, previousVersion \in PolicyVersions,
          updatedVersion \in PolicyVersions, reprogrammingInput \in {"true", "false"} :
           Report("P1", "D1", status, previousVersion, updatedVersion, reprogrammingInput)

NextPolicy == PolicyReport

SpecPolicy == Init /\ [][NextPolicy]_vars

\* ------------------------------------------------ POST / (attempt recorder)
DateInputs == {"", "invalid"}

\* !pic_id || !deviceId || !status || !previousVersion || !updatedVersion
ingestMissing(pic_id, deviceId, status, previousVersion, updatedVersion) ==
    \/ pic_id = ""
    \/ deviceId = ""
    \/ status = <<>>
    \/ previousVersion = <<>>
    \/ updatedVersion = <<>>

\* date ? new Date(date) : new Date(); an unparsable date is NaN
entryDateOf(date) == clock

invalidDate(date) == date = "invalid"

ingestEntry(handler, pic_id, deviceId, updatedVersion, status, badge, wasNew, code) ==
    [ handler |-> handler, pic_id |-> pic_id, deviceId |-> deviceId,
      updatedVersion |-> updatedVersion, status |-> status, badge |-> badge,
      wasNew |-> wasNew, code |-> code ]

\* the unit the handler saves: the stored one, or a new one, with the attempt added
unitToSave(coll, pic_id, deviceId, status, previousVersion, updatedVersion, entryDate, badge) ==
    LET idx == findUnit(coll, pic_id, updatedVersion)
        record == IF idx = 0 THEN newUnit(pic_id, deviceId, previousVersion, updatedVersion)
                  ELSE coll[idx]
    IN [idx |-> idx, unit |-> addStatusEntry(record, status, entryDate, badge)]

\* mutant: the saved unit is always inserted as a new record
savedUnits_AlwaysInsert(coll, toSave) ==
    Append(coll, toSave.unit)

\* record.save(): insert of a new unit, update of a loaded one
savedUnits(coll, toSave) ==
    IF toSave.idx = 0 THEN Append(coll, toSave.unit)
    ELSE [coll EXCEPT ![toSave.idx] = toSave.unit]

\* part_005: resolve the badge, find or create the unit, append, save, refresh stats
Ingest(pic_id, deviceId, status, previousVersion, updatedVersion, date) ==
    /\ NoneInFlight
    /\ IF \/ ingestMissing(pic_id, deviceId, status, previousVersion, updatedVersion)
          \/ invalidDate(date)
       THEN /\ resp' = [resp EXCEPT ![1] = "400"]
            /\ UNCHANGED <<units, deviceStats, log>>
       ELSE LET badge == resolveStatusForDevice(statusMgmt, deviceId, status)
                toSave == unitToSave(units, pic_id, deviceId, status, previousVersion,
                                     updatedVersion, entryDateOf(date), badge)
            IN /\ units' = savedUnits(units, toSave)
               /\ deviceStats' = withEspStats(withOtaStats(deviceStats, units', deviceId),
                                              units', deviceId)
               /\ log' = Append(log, ingestEntry("ingest", pic_id, deviceId, updatedVersion,
                                                 status, badge, toSave.idx = 0, "201"))
               /\ resp' = [resp EXCEPT ![1] = "201"]
    /\ UNCHANGED <<timezone, projects, reply, statusMgmt, dashDocs, otaUpdates, clock, procs>>

\* part_004: the earlier handler, which appends without a resolved badge; only
\* the branch that creates the record validates the date
LegacyIngest(pic_id, deviceId, status, previousVersion, updatedVersion, date) ==
    /\ NoneInFlight
    /\ IF \/ ingestMissing(pic_id, deviceId, status, previousVersion, updatedVersion)
          \/ (findUnit(units, pic_id, updatedVersion) = 0 /\ invalidDate(date))
       THEN /\ resp' = [resp EXCEPT ![1] = "400"]
            /\ UNCHANGED <<units, deviceStats, log>>
       ELSE LET toSave == unitToSave(units, pic_id, deviceId, status, previousVersion,
                                     updatedVersion, clock, "other")
            IN /\ units' = savedUnits(units, toSave)
               /\ deviceStats' = withEspStats(withOtaStats(deviceStats, units', deviceId),
                                              units', deviceId)
               /\ log' = Append(log, ingestEntry("legacy", pic_id, deviceId, updatedVersion,
                                                 status, "other", toSave.idx = 0, "201"))
               /\ resp' = [resp EXCEPT ![1] = "201"]
    /\ UNCHANGED <<timezone, projects, reply, statusMgmt, dashDocs, otaUpdates, clock, procs>>

IngestAny ==
    /\ Len(log) < MaxIngests
    /\ \E pic_id \in PicInputs, deviceId \in Devices, status \in StatusInputs,
          updatedVersion \in Versions, date \in DateInputs :
           Ingest(pic_id, deviceId, status, V_1_0, updatedVersion, date)

LegacyIngestAny ==
    /\ Len(log) < MaxIngests
    /\ \E pic_id \in PicInputs, deviceId \in Devices, status \in StatusInputs,
          updatedVersion \in Versions, date \in DateInputs :
           LegacyIngest(pic_id, deviceId, status, V_1_0, updatedVersion, date)

NextIngest ==
    \/ Tick
    \/ IngestAny
    \/ LegacyIngestAny

SpecIngest == Init /\ [][NextIngest]_vars

\* the attempt recorder over a device whose configuration names a badge for
\* every code it reports
InitRemapped ==
    /\ statusMgmt = << [deviceId |-> "D1", statusCodes |-> StatusCodesRemapped] >>
    /\ dashDocs = <<>>
    /\ otaUpdates = <<>>
    /\ units = <<>>
    /\ deviceStats = [d \in Devices |-> [otaStats |-> zeroOtaStats, espStats |-> emptyEspStats]]
    /\ clock = 0
    /\ resp = [p \in Procs |-> "none"]
    /\ log = <<>>
    /\ procs = [p \in Procs |-> Idle]
    /\ projects = {}
    /\ reply = NoReply
    /\ timezone = 0

ResolveIngest ==
    /\ Len(log) < MaxResolves
    /\ \E pic_id \in Pics, deviceId \in Devices,
          status \in {S_0, S_1, S_2, S_3, S_5, S_9} :
           Ingest(pic_id, deviceId, status, V_1_0, V_2_0, "")

NextResolve == ResolveIngest

SpecResolve == InitRemapped /\ [][NextResolve]_vars

\* ----------------------------------- POST /report, one await point per step
InFlight == Cardinality({p \in Procs : procs[p].pc # "idle"})

Started == Len(log) + InFlight

noEdit == [push |-> "none", recoverIdx |-> 0]

\* validation, configuration lookup, classification and otaUpdate.save()
CReportBegin(p, pic_id, deviceId, status, previousVersion, updatedVersion, reprogrammingInput) ==
    LET why == rejection(pic_id, deviceId, status, previousVersion, updatedVersion,
                         reprogrammingInput)
    IN /\ procs[p].pc = "idle"
       /\ Started < MaxConcurrent
       /\ IF why # ""
          THEN /\ resp' = [resp EXCEPT ![p] = why]
               /\ UNCHANGED <<otaUpdates, log, procs>>
          ELSE LET c == classify(statusCodeOf(deviceId, status), previousVersion,
                                 updatedVersion, reprogrammingInput)
                   req == [ pic_id |-> pic_id, deviceId |-> deviceId, c |-> c,
                            previousVersion |-> previousVersion,
                            updatedVersion |-> updatedVersion, timestamp |-> clock ]
               IN /\ otaUpdates' = Append(otaUpdates, newOtaUpdate(pic_id, deviceId, c))
                  /\ IF c.needsDashboardUpdate
                     THEN /\ procs' = [procs EXCEPT ![p] = [pc |-> "find", req |-> req]]
                          /\ UNCHANGED <<resp, log>>
                     ELSE /\ resp' = [resp EXCEPT ![p] = "200"]
                          /\ log' = Append(log, logEntry(pic_id, deviceId, c, previousVersion,
                                                         updatedVersion, clock, "none"))
                          /\ UNCHANGED procs
       /\ UNCHANGED <<timezone, projects, reply, statusMgmt, dashDocs, units, deviceStats, clock>>

\* the response, and the day of the document the request was applied to
respond200(p, req, push, date) ==
    /\ resp' = [resp EXCEPT ![p] = "200"]
    /\ log' = Append(log, [logEntry(req.pic_id, req.deviceId, req.c, req.previousVersion,
                                    req.updatedVersion, req.timestamp, push)
                               EXCEPT !.date = date])

\* findOrCreateDashboardStats and the edits made on the loaded document
CReportFind(p) ==
    /\ procs[p].pc = "find"
    /\ LET req == procs[p].req
           found == findOrCreateDashboardStats(dashDocs, req.deviceId, getTodayDate)
           edit == bucketEdit(found.doc, req.c, req.pic_id, req.deviceId)
           record == makeRecord(edit.push, req.pic_id, req.deviceId, req.c,
                                req.previousVersion, req.updatedVersion, req.timestamp)
           loaded == [ req |-> req, found |-> found, edit |-> edit, record |-> record ]
       IN IF ~dashboardModified(edit)
          THEN /\ respond200(p, req, "none", found.doc.date)
               /\ procs' = [procs EXCEPT ![p] = Idle]
          ELSE /\ procs' = [procs EXCEPT ![p] =
                     [pc |-> IF edit.recoverIdx # 0 THEN "updateMany" ELSE "save"] @@ loaded]
               /\ UNCHANGED <<resp, log>>
    /\ UNCHANGED <<timezone, projects, reply, statusMgmt, dashDocs, otaUpdates, units, deviceStats, clock>>

CReportUpdateMany(p) ==
    /\ procs[p].pc = "updateMany"
    /\ otaUpdates' = updateManyRecovered(otaUpdates, procs[p].req.pic_id, procs[p].req.deviceId)
    /\ procs' = [procs EXCEPT ![p].pc = "save"]
    /\ UNCHANGED <<timezone, projects, reply, statusMgmt, dashDocs, units, deviceStats, clock, resp, log>>

\* save() of a loaded document: the arrays the handler changed are written whole
writeModifiedPaths(stored, memory, edit) ==
    [ stored EXCEPT
        !.date = memory.date,
        !.success = IF edit.push = "success" THEN memory.success ELSE @,
        !.failure = IF edit.push = "failure" \/ edit.recoverIdx # 0 THEN memory.failure ELSE @,
        !.other = IF edit.push = "other" THEN memory.other ELSE @ ]

\* save() of a loaded document: the append and the flag are applied to the stored arrays
writeAtomics(stored, memory, edit, record) ==
    applyEdit([stored EXCEPT !.date = memory.date], edit, record)

\* dashboardStats.save(): an insert for a new document, else an update of the
\* changed paths of the stored one
CReportSave(p) ==
    /\ procs[p].pc = "save"
    /\ LET st == procs[p]
           memory == applyEdit(st.found.doc, st.edit, st.record)
       IN /\ IF st.found.idx = 0
             THEN dashDocs' = insertDashboardStats(dashDocs, memory)
             ELSE \E mode \in SaveModes :
                    dashDocs' = [dashDocs EXCEPT ![st.found.idx] =
                        IF mode = "set" THEN writeModifiedPaths(@, memory, st.edit)
                        ELSE writeAtomics(@, memory, st.edit, st.record)]
          /\ respond200(p, st.req, st.edit.push, st.found.doc.date)
    /\ procs' = [procs EXCEPT ![p] = Idle]
    /\ UNCHANGED <<timezone, projects, reply, statusMgmt, otaUpdates, units, deviceStats, clock>>

CReportStep ==
    \E p \in Procs :
        \/ \E pic_id \in Pics, status \in {S_2, S_0, S_9} :
               CReportBegin(p, pic_id, "D1", status, V_1_0, V_2_0, "false")
        \/ CReportFind(p)
        \/ CReportUpdateMany(p)
        \/ CReportSave(p)

NextConcReport ==
    \/ NextDay
    \/ CReportStep

SpecConcReport == Init /\ [][NextConcReport]_vars

\* ---------------------------------------- POST /, one await point per step
\* resolveStatusForDevice and OTAUpdate.findOne, then addStatusEntry in memory
CIngestFind(p, pic_id, deviceId, status, previousVersion, updatedVersion, date) ==
    /\ procs[p].pc = "idle"
    /\ Started < MaxConcurrent
    /\ IF \/ ingestMissing(pic_id, deviceId, status, previousVersion, updatedVersion)
          \/ invalidDate(date)
       THEN /\ resp' = [resp EXCEPT ![p] = "400"]
            /\ UNCHANGED procs
       ELSE LET badge == resolveStatusForDevice(statusMgmt, deviceId, status)
                idx == findUnit(units, pic_id, updatedVersion)
                loaded == IF idx = 0
                          THEN newUnit(pic_id, deviceId, previousVersion, updatedVersion)
                          ELSE units[idx]
            IN /\ procs' = [procs EXCEPT ![p] =
                     [ pc |-> "saveUnit", pic_id |-> pic_id, deviceId |-> deviceId,
                       updatedVersion |-> updatedVersion, status |-> status, badge |-> badge,
                       isNew |-> idx = 0, loaded |-> loaded,
                       memory |-> addStatusEntry(loaded, status, entryDateOf(date), badge) ]]
               /\ UNCHANGED resp
    /\ UNCHANGED <<timezone, projects, reply, statusMgmt, dashDocs, otaUpdates, units, deviceStats, clock, log>>

\* the update save() sends for a loaded unit: $push of the new entry and $set of
\* the fields whose value the handler changed
updateUnit(stored, loaded, memory) ==
    [ stored EXCEPT
        !.statusEntries = Append(@, memory.statusEntries[Len(memory.statusEntries)]),
        !.totalAttempts = IF memory.totalAttempts # loaded.totalAttempts
                          THEN memory.totalAttempts ELSE @,
        !.successAttempts = IF memory.successAttempts # loaded.successAttempts
                            THEN memory.successAttempts ELSE @,
        !.failureAttempts = IF memory.failureAttempts # loaded.failureAttempts
                            THEN memory.failureAttempts ELSE @,
        !.finalStatus = IF memory.finalStatus # loaded.finalStatus
                        THEN memory.finalStatus ELSE @ ]

ingestDone(p, code) ==
    /\ resp' = [resp EXCEPT ![p] = code]
    /\ log' = Append(log, ingestEntry("ingest", procs[p].pic_id, procs[p].deviceId,
                                      procs[p].updatedVersion, procs[p].status,
                                      procs[p].badge, procs[p].isNew, code))
    /\ procs' = [procs EXCEPT ![p] = Idle]

\* record.save(): the insert of a new unit fails on the unique index
\* { pic_id, updatedVersion } (E11000, answered 409)
CIngestSave(p) ==
    /\ procs[p].pc = "saveUnit"
    /\ LET st == procs[p]
           idx == findUnit(units, st.pic_id, st.updatedVersion)
       IN IF st.isNew /\ idx # 0
          THEN /\ ingestDone(p, "409")
               /\ UNCHANGED units
          ELSE /\ units' = IF st.isNew THEN Append(units, st.memory)
                           ELSE [units EXCEPT ![idx] = updateUnit(@, st.loaded, st.memory)]
               /\ procs' = [procs EXCEPT ![p].pc = "otaStatsFind"]
               /\ UNCHANGED <<resp, log>>
    /\ UNCHANGED <<timezone, projects, reply, statusMgmt, dashDocs, otaUpdates, deviceStats, clock>>

\* updateDeviceStats: OTAUpdate.find({ deviceId }) and the counters computed from it
COtaStatsFind(p) ==
    /\ procs[p].pc = "otaStatsFind"
    /\ procs' = [procs EXCEPT ![p] =
           [pc |-> "otaStatsWrite",
            otaStats |-> computeOtaStats(unitsOfDevice(units, procs[p].deviceId))] @@ @]
    /\ UNCHANGED <<timezone, projects, reply, statusMgmt, dashDocs, otaUpdates, units, deviceStats, clock, resp, log>>

\* updateDeviceStats: Device.findOneAndUpdate({ deviceId }, { $set: { otaStats } })
COtaStatsWrite(p) ==
    /\ procs[p].pc = "otaStatsWrite"
    /\ deviceStats' = IF procs[p].deviceId \in DOMAIN deviceStats
                      THEN [deviceStats EXCEPT ![procs[p].deviceId].otaStats = procs[p].otaStats]
                      ELSE deviceStats
    /\ procs' = [procs EXCEPT ![p].pc = "espStatsFind"]
    /\ UNCHANGED <<timezone, projects, reply, statusMgmt, dashDocs, otaUpdates, units, clock, resp, log>>

\* updateESPStats: OTAUpdate.find({ deviceId }); nothing is written when it is empty
CEspStatsFind(p) ==
    /\ procs[p].pc = "espStatsFind"
    /\ LET found == unitsOfDevice(units, procs[p].deviceId)
       IN IF found = <<>>
          THEN ingestDone(p, "201")
          ELSE /\ procs' = [procs EXCEPT ![p] =
                     [pc |-> "espStatsWrite", espStats |-> computeEspStats(found)] @@ @]
               /\ UNCHANGED <<resp, log>>
    /\ UNCHANGED <<timezone, projects, reply, statusMgmt, dashDocs, otaUpdates, units, deviceStats, clock>>

\* updateESPStats: Device.findOneAndUpdate({ deviceId }, { $set: { espStats } })
CEspStatsWrite(p) ==
    /\ procs[p].pc = "espStatsWrite"
    /\ deviceStats' = IF procs[p].deviceId \in DOMAIN deviceStats
                      THEN [deviceStats EXCEPT ![procs[p].deviceId].espStats = procs[p].espStats]
                      ELSE deviceStats
    /\ ingestDone(p, "201")
    /\ UNCHANGED <<timezone, projects, reply, statusMgmt, dashDocs, otaUpdates, units, clock>>

CIngestStep ==
    \E p \in Procs :
        \/ \E pic_id \in Pics, status \in {S_2, S_0, <<>>} :
               CIngestFind(p, pic_id, "D1", status, V_1_0, V_2_0, "")
        \/ CIngestSave(p)
        \/ COtaStatsFind(p)
        \/ COtaStatsWrite(p)
        \/ CEspStatsFind(p)
        \/ CEspStatsWrite(p)

NextConcIngest == CIngestStep

SpecConcIngest == Init /\ [][NextConcIngest]_vars

\* ======================================= status configuration (StatusManagement.js)
\* code lists a client may submit: none, two distinct codes, one code twice
CodeLists ==
    { <<>>,
      << [code |-> 2, badge |-> "success"], [code |-> 0, badge |-> "failure"] >>,
      << [code |-> 2, badge |-> "success"], [code |-> 2, badge |-> "failure"] >> }

DeviceInputs == Devices \cup {"D9"}
BaseInputs == Devices \cup {""}

\* the first code met a second time, as code.toString().trim(); "" for null
RECURSIVE duplicateFrom(_, _)
duplicateFrom(codes, seen) ==
    IF codes = <<>> THEN ""
    ELSE LET normalized == Trim(NumToString(Head(codes).code))
         IN IF normalized \in seen THEN "dup " \o DigitChar(Head(codes).code)
            ELSE duplicateFrom(Tail(codes), seen \cup {normalized})

findDuplicateStatusCode(codes) == duplicateFrom(codes, {})

\* Device.findOne({ deviceId })
deviceExists(deviceId) == deviceId \in DOMAIN deviceStats

\* isBasedOnOtherDevice && baseDeviceId: the base device and its configuration must exist
baseRejection(coll, isBasedOnOtherDevice, baseDeviceId) ==
    IF isBasedOnOtherDevice /\ baseDeviceId # ""
    THEN IF ~deviceExists(baseDeviceId) THEN "404 base"
         ELSE IF findStatusManagement(coll, baseDeviceId) = 0 THEN "400 base config"
         ELSE ""
    ELSE ""

\* router.post('/'): the answer that rejects the request, "" when it is accepted
createRejection(coll, deviceId, statusCodes, isBasedOnOtherDevice, baseDeviceId) ==
    IF ~deviceExists(deviceId) THEN "404 device"
    ELSE IF findStatusManagement(coll, deviceId) # 0 THEN "400 exists"
    ELSE IF baseRejection(coll, isBasedOnOtherDevice, baseDeviceId) # ""
         THEN baseRejection(coll, isBasedOnOtherDevice, baseDeviceId)
    ELSE IF ~isBasedOnOtherDevice /\ findDuplicateStatusCode(statusCodes) # ""
         THEN "400 duplicate"
    ELSE ""

\* new StatusManagement({ deviceId, statusCodes, isBasedOnOtherDevice, baseDeviceId })
newStatusManagement(id, deviceId, statusCodes, isBasedOnOtherDevice, baseDeviceId) ==
    [ id |-> id, deviceId |-> deviceId, statusCodes |-> statusCodes,
      isBasedOnOtherDevice |-> isBasedOnOtherDevice, baseDeviceId |-> baseDeviceId ]

\* StatusManagement.findById(id)
findStatusManagementById(coll, id) == FirstIndex(coll, LAMBDA d : d.id = id)

\* the id the store gives the next inserted document
nextId(coll) == Len(coll) + 1

\* router.put('/:id'): the answer that rejects the request, "" when it is accepted
updateRejection(coll, id, statusCodes, isBasedOnOtherDevice, baseDeviceId) ==
    IF findStatusManagementById(coll, id) = 0 THEN "404 config"
    ELSE IF baseRejection(coll, isBasedOnOtherDevice, baseDeviceId) # ""
         THEN baseRejection(coll, isBasedOnOtherDevice, baseDeviceId)
    ELSE IF ~isBasedOnOtherDevice /\ findDuplicateStatusCode(statusCodes) # ""
         THEN "400 duplicate"
    ELSE ""

\* router.put('/:id'): the fields the handler assigns before save()
updatedStatusManagement(doc, statusCodes, isBasedOnOtherDevice, baseDeviceId) ==
    [ doc EXCEPT !.statusCodes = statusCodes,
                 !.isBasedOnOtherDevice = isBasedOnOtherDevice,
                 !.baseDeviceId = IF baseDeviceId # "" THEN baseDeviceId ELSE @ ]

\* router.post('/copy/:deviceId'): the answer that rejects the request
copyRejection(coll, deviceId, sourceDeviceId) ==
    IF ~deviceExists(deviceId) THEN "404 device"
    ELSE IF findStatusManagement(coll, sourceDeviceId) = 0 THEN "404 source"
    ELSE ""

\* router.post('/copy/:deviceId'): the fields the handler assigns to the target
copiedStatusManagement(doc, source, sourceDeviceId) ==
    [ doc EXCEPT !.statusCodes = source.statusCodes,
                 !.isBasedOnOtherDevice = TRUE,
                 !.baseDeviceId = sourceDeviceId ]

configEntry(op, deviceId) == [op |-> op, deviceId |-> deviceId]

InitConfig ==
    /\ statusMgmt = <<>>
    /\ dashDocs = <<>>
    /\ otaUpdates = <<>>
    /\ units = <<>>
    /\ deviceStats = [d \in Devices |-> [otaStats |-> zeroOtaStats, espStats |-> emptyEspStats]]
    /\ clock = 0
    /\ resp = [p \in Procs |-> "none"]
    /\ log = <<>>
    /\ procs = [p \in Procs |-> Idle]
    /\ projects = {}
    /\ reply = NoReply
    /\ timezone = 0

\* router.post('/'), run to completion
CreateConfig(deviceId, statusCodes, isBasedOnOtherDevice, baseDeviceId) ==
    LET why == createRejection(statusMgmt, deviceId, statusCodes, isBasedOnOtherDevice,
                               baseDeviceId)
    IN /\ NoneInFlight
       /\ IF why # ""
          THEN /\ resp' = [resp EXCEPT ![1] = why]
               /\ UNCHANGED <<statusMgmt, log>>
          ELSE /\ statusMgmt' = Append(statusMgmt,
                     newStatusManagement(nextId(statusMgmt), deviceId, statusCodes,
                                         isBasedOnOtherDevice, baseDeviceId))
               /\ log' = Append(log, configEntry("create", deviceId))
               /\ resp' = [resp EXCEPT ![1] = "201"]
       /\ UNCHANGED <<timezone, projects, reply, dashDocs, otaUpdates, units, deviceStats, clock, procs>>

\* router.put('/:id'), run to completion
UpdateConfig(id, statusCodes, isBasedOnOtherDevice, baseDeviceId) ==
    LET why == updateRejection(statusMgmt, id, statusCodes, isBasedOnOtherDevice, baseDeviceId)
        idx == findStatusManagementById(statusMgmt, id)
    IN /\ NoneInFlight
       /\ IF why # ""
          THEN /\ resp' = [resp EXCEPT ![1] = why]
               /\ UNCHANGED <<statusMgmt, log>>
          ELSE /\ statusMgmt' = [statusMgmt EXCEPT ![idx] =
                     updatedStatusManagement(@, statusCodes, isBasedOnOtherDevice, baseDeviceId)]
               /\ log' = Append(log, configEntry("update", statusMgmt[idx].deviceId))
               /\ resp' = [resp EXCEPT ![1] = "200"]
       /\ UNCHANGED <<timezone, projects, reply, dashDocs, otaUpdates, units, deviceStats, clock, procs>>

\* router.post('/copy/:deviceId'), run to completion
CopyConfig(deviceId, sourceDeviceId) ==
    LET why == copyRejection(statusMgmt, deviceId, sourceDeviceId)
        source == statusMgmt[findStatusManagement(statusMgmt, sourceDeviceId)]
        target == findStatusManagement(statusMgmt, deviceId)
    IN /\ NoneInFlight
       /\ IF why # ""
          THEN /\ resp' = [resp EXCEPT ![1] = why]
               /\ UNCHANGED <<statusMgmt, log>>
          ELSE /\ statusMgmt' =
                     IF target # 0
                     THEN [statusMgmt EXCEPT ![target] =
                              copiedStatusManagement(@, source, sourceDeviceId)]
                     ELSE Append(statusMgmt,
                              newStatusManagement(nextId(statusMgmt), deviceId,
                                                  source.statusCodes, TRUE, sourceDeviceId))
               /\ log' = Append(log, configEntry("copy", deviceId))
               /\ resp' = [resp EXCEPT ![1] = "200"]
       /\ UNCHANGED <<timezone, projects, reply, dashDocs, otaUpdates, units, deviceStats, clock, procs>>

CreateConfigAny ==
    /\ Len(log) < MaxConfigWrites
    /\ \E deviceId \in DeviceInputs, statusCodes \in CodeLists,
          isBasedOnOtherDevice \in BOOLEAN, baseDeviceId \in BaseInputs :
           CreateConfig(deviceId, statusCodes, isBasedOnOtherDevice, baseDeviceId)

UpdateConfigAny ==
    /\ Len(log) < MaxConfigWrites
    /\ \E id \in 1..2, statusCodes \in CodeLists,
          isBasedOnOtherDevice \in BOOLEAN, baseDeviceId \in BaseInputs :
           UpdateConfig(id, statusCodes, isBasedOnOtherDevice, baseDeviceId)

CopyConfigAny ==
    /\ Len(log) < MaxConfigWrites
    /\ \E deviceId \in DeviceInputs, sourceDeviceId \in Devices :
           CopyConfig(deviceId, sourceDeviceId)

NextConfig ==
    \/ CreateConfigAny
    \/ UpdateConfigAny
    \/ CopyConfigAny

SpecConfig == InitConfig /\ [][NextConfig]_vars

\* --------------------------- create and copy, one step per side of the save
\* router.post('/'): the lookups up to the construction of the document
CCreateCheck(p, deviceId, statusCodes, isBasedOnOtherDevice, baseDeviceId) ==
    LET why == createRejection(statusMgmt, deviceId, statusCodes, isBasedOnOtherDevice,
                               baseDeviceId)
    IN /\ procs[p].pc = "idle"
       /\ Len(log) + InFlight < MaxConcConfigs
       /\ IF why # ""
          THEN /\ resp' = [resp EXCEPT ![p] = why]
               /\ UNCHANGED procs
          ELSE /\ procs' = [procs EXCEPT ![p] =
                     [ pc |-> "createSave", deviceId |-> deviceId, statusCodes |-> statusCodes,
                       isBasedOnOtherDevice |-> isBasedOnOtherDevice,
                       baseDeviceId |-> baseDeviceId ]]
               /\ UNCHANGED resp
       /\ UNCHANGED <<timezone, projects, reply, statusMgmt, dashDocs, otaUpdates, units, deviceStats,
                      clock, log>>

\* router.post('/'): statusManagement.save()
CCreateSave(p) ==
    /\ procs[p].pc = "createSave"
    /\ statusMgmt' = Append(statusMgmt,
           newStatusManagement(nextId(statusMgmt), procs[p].deviceId, procs[p].statusCodes,
                               procs[p].isBasedOnOtherDevice, procs[p].baseDeviceId))
    /\ log' = Append(log, configEntry("create", procs[p].deviceId))
    /\ resp' = [resp EXCEPT ![p] = "201"]
    /\ procs' = [procs EXCEPT ![p] = Idle]
    /\ UNCHANGED <<timezone, projects, reply, dashDocs, otaUpdates, units, deviceStats, clock>>

\* router.post('/copy/:deviceId'): the lookups of source and target
CCopyFind(p, deviceId, sourceDeviceId) ==
    LET why == copyRejection(statusMgmt, deviceId, sourceDeviceId)
        target == findStatusManagement(statusMgmt, deviceId)
    IN /\ procs[p].pc = "idle"
       /\ Len(log) + InFlight < MaxConcConfigs
       /\ IF why # ""
          THEN /\ resp' = [resp EXCEPT ![p] = why]
               /\ UNCHANGED procs
          ELSE /\ procs' = [procs EXCEPT ![p] =
                     [ pc |-> "copySave", deviceId |-> deviceId,
                       sourceDeviceId |-> sourceDeviceId,
                       source |-> statusMgmt[findStatusManagement(statusMgmt, sourceDeviceId)],
                       targetId |-> IF target = 0 THEN 0 ELSE statusMgmt[target].id ]]
               /\ UNCHANGED resp
       /\ UNCHANGED <<timezone, projects, reply, statusMgmt, dashDocs, otaUpdates, units, deviceStats,
                      clock, log>>

\* router.post('/copy/:deviceId'): targetStatusEntry.save(), update or insert
CCopySave(p) ==
    /\ procs[p].pc = "copySave"
    /\ LET st == procs[p]
           idx == findStatusManagementById(statusMgmt, st.targetId)
       IN statusMgmt' =
              IF st.targetId # 0 /\ idx # 0
              THEN [statusMgmt EXCEPT ![idx] =
                       copiedStatusManagement(@, st.source, st.sourceDeviceId)]
              ELSE Append(statusMgmt,
                       newStatusManagement(nextId(statusMgmt), st.deviceId,
                                           st.source.statusCodes, TRUE, st.sourceDeviceId))
    /\ log' = Append(log, configEntry("copy", procs[p].deviceId))
    /\ resp' = [resp EXCEPT ![p] = "200"]
    /\ procs' = [procs EXCEPT ![p] = Idle]
    /\ UNCHANGED <<timezone, projects, reply, dashDocs, otaUpdates, units, deviceStats, clock>>

CConfigStep ==
    \E p \in Procs :
        \/ \E deviceId \in Devices, statusCodes \in CodeLists,
              isBasedOnOtherDevice \in BOOLEAN, baseDeviceId \in BaseInputs :
               CCreateCheck(p, deviceId, statusCodes, isBasedOnOtherDevice, baseDeviceId)
        \/ CCreateSave(p)
        \/ \E deviceId \in Devices, sourceDeviceId \in Devices :
               CCopyFind(p, deviceId, sourceDeviceId)
        \/ CCopySave(p)

NextConcConfig == CConfigStep

SpecConcConfig == InitConfig /\ [][NextConcConfig]_vars

\* ------------------------------- stored records: POST / and DELETE /:id
S_minus1 == <<"-", "1">>
S_10 == <<"1", "0">>
S_abc == <<"a", "b", "c">>
RawStatuses == {S_2, S_3, S_0, S_minus1, S_10, S_abc}

\* OTAUpdate.findByIdAndDelete(id): the collection without that record
withoutUnit(coll, id) ==
    [i \in 1..(Len(coll) - 1) |-> IF i < id THEN coll[i] ELSE coll[i + 1]]

\* part_004 DELETE /:id: remove the record, then refresh both statistics of its device
Delete(id) ==
    /\ NoneInFlight
    /\ IF id \notin 1..Len(units)
       THEN /\ resp' = [resp EXCEPT ![1] = "404"]
            /\ UNCHANGED <<units, deviceStats, log>>
       ELSE LET deleted == units[id]
            IN /\ units' = withoutUnit(units, id)
               /\ deviceStats' = withEspStats(withOtaStats(deviceStats, units', deleted.deviceId),
                                              units', deleted.deviceId)
               /\ log' = Append(log, ingestEntry("delete", deleted.pic_id, deleted.deviceId,
                                                 deleted.updatedVersion, <<>>, "other", FALSE, "200"))
               /\ resp' = [resp EXCEPT ![1] = "200"]
    /\ UNCHANGED <<timezone, projects, reply, statusMgmt, dashDocs, otaUpdates, clock, procs>>

RecordAny ==
    /\ Len(log) < MaxRecordOps
    /\ \E pic_id \in Pics, deviceId \in Devices, status \in RawStatuses,
          updatedVersion \in Versions :
           LegacyIngest(pic_id, deviceId, status, V_1_0, updatedVersion, "")

DeleteAny ==
    /\ Len(log) < MaxRecordOps
    /\ \E id \in 1..(Len(units) + 1) : Delete(id)

NextRecords ==
    \/ RecordAny
    \/ DeleteAny

SpecRecords == Init /\ [][NextRecords]_vars


\* ------------------------------------ projects (ProjectManagement.js)
ProjectIds == {"A", "B"}
ProjectInputs == ProjectIds \cup {"Z"}
NoProject == "null"

\* Device.find({ project: id }), as device ids
devicesOfProject(stats, id) == {d \in DOMAIN stats : stats[d].project = id}

\* Device.updateMany({ project: id }, { project: null, dateAssigned: null })
detachDevices(stats, id) ==
    [d \in DOMAIN stats |-> IF stats[d].project = id
                            THEN [stats[d] EXCEPT !.project = NoProject]
                            ELSE stats[d]]

\* StatusManagement.updateMany({ deviceId: { $in: ids }, isBasedOnOtherDevice: true,
\* baseDeviceId: { $in: ids } }, { isBasedOnOtherDevice: false, baseDeviceId: null })
clearInheritance(coll, ids) ==
    [i \in 1..Len(coll) |->
        IF coll[i].deviceId \in ids /\ coll[i].isBasedOnOtherDevice /\ coll[i].baseDeviceId \in ids
        THEN [coll[i] EXCEPT !.isBasedOnOtherDevice = FALSE, !.baseDeviceId = ""]
        ELSE coll[i]]

\* two projects; every device is assigned to one of them or to none
InitProject ==
    /\ statusMgmt = <<>>
    /\ dashDocs = <<>>
    /\ otaUpdates = <<>>
    /\ units = <<>>
    /\ deviceStats \in [Devices -> { [otaStats |-> zeroOtaStats, espStats |-> emptyEspStats,
                                      project |-> pr] : pr \in ProjectIds \cup {NoProject} }]
    /\ clock = 0
    /\ resp = [p \in Procs |-> "none"]
    /\ log = <<>>
    /\ procs = [p \in Procs |-> Idle]
    /\ projects = ProjectIds
    /\ reply = NoReply
    /\ timezone = 0

\* Router.delete('/:id'): the devices are detached first; the devices whose
\* configurations are to be updated are looked up after that
DeleteProject(id) ==
    /\ NoneInFlight
    /\ IF id \notin projects
       THEN /\ resp' = [resp EXCEPT ![1] = "404"]
            /\ UNCHANGED <<deviceStats, statusMgmt, projects>>
       ELSE LET detached == detachDevices(deviceStats, id)
                projectDeviceIds == devicesOfProject(detached, id)
            IN /\ deviceStats' = detached
               /\ statusMgmt' = clearInheritance(statusMgmt, projectDeviceIds)
               /\ projects' = projects \ {id}
               /\ resp' = [resp EXCEPT ![1] = "200"]
    /\ UNCHANGED <<timezone, reply, dashDocs, otaUpdates, units, clock, log, procs>>

DeleteProjectAny == \E id \in ProjectInputs : DeleteProject(id)

NextProject ==
    \/ CreateConfigAny
    \/ DeleteProjectAny

SpecProject == InitProject /\ [][NextProject]_vars

\* ------------------------------- dashboard reads (Dashboard.js)
\* UTC-12, UTC and UTC+12
TimezoneOffsets == {-1, 0, 1}

\* a YYYY-MM-DD string is written as the digits of its day number;
\* <<>> is a missing parameter, <<"x">> a string that is no date
D_0 == <<"0">>
D_1 == <<"1">>
DateStrings == {<<>>, <<"x">>, D_0, D_1}
DaysInputs == {<<"1">>, <<"2">>}
ProjectQueries == ProjectIds \cup {""}
DeviceQueries == Devices \cup {""}

\* new Date(dateStr) for a date-only string: midnight UTC of that day, read on
\* the local clock
parseDate(dateStr) ==
    LET day == parseInt(dateStr)
    IN IF day.nan THEN [nan |-> TRUE, val |-> 0]
       ELSE [nan |-> FALSE, val |-> day.val * TicksPerDay + timezone]

\* getFullYear, getMonth, getDate: the local calendar day of an instant
localDay(t) == localMidnight(t) \div TicksPerDay

\* formatLocalDateKey
formatLocalDateKey(date) == localDay(date)

\* new Date(y, m, d, 0, 0, 0, 0) and new Date(y, m, d, 23, 59, 59, 999)
startOfLocalDay(day) == day * TicksPerDay
endOfLocalDay(day) == day * TicksPerDay + TicksPerDay - 1

AllDevices == [all |-> TRUE, ids |-> {}]
OnlyDevices(ids) == [all |-> FALSE, ids |-> ids]

\* chart-data: an empty project leaves query.deviceId unset
chartDeviceFilter(projectId, deviceId) ==
    IF deviceId # "" THEN OnlyDevices({deviceId})
    ELSE IF projectId # ""
         THEN LET deviceIds == devicesOfProject(deviceStats, projectId)
              IN IF deviceIds # {} THEN OnlyDevices(deviceIds) ELSE AllDevices
    ELSE AllDevices

\* time-stats: query.deviceId = { $in: deviceIds } also when there is none
timeDeviceFilter(projectId, deviceId) ==
    IF deviceId # "" THEN OnlyDevices({deviceId})
    ELSE IF projectId # "" THEN OnlyDevices(devicesOfProject(deviceStats, projectId))
    ELSE AllDevices

\* DashboardStats.find(query): 'stats.date' in [from, to] and the device filter
findStats(coll, from, to, filter) ==
    SelectSeq(coll, LAMBDA d :
        /\ d.date >= from
        /\ d.date <= to
        /\ (filter.all \/ d.deviceId \in filter.ids))

\* the keys of a set of days in ascending order
sortedDays(days) ==
    CHOOSE s \in [1..Cardinality(days) -> days] :
        \A i \in 1..(Cardinality(days) - 1) : s[i] < s[i + 1]

\* the date map: one zero entry per day from startLocal to endLocal, the counts
\* of the found documents added under their local date key, sorted by date
dailyDataOf(allStats, startLocal, endLocal) ==
    LET initKeys == {formatLocalDateKey(t) : t \in startLocal..endLocal}
        statKeys == {formatLocalDateKey(allStats[i].date) : i \in 1..Len(allStats)}
        keys == sortedDays(initKeys \cup statKeys)
        ofDay(k) == SelectSeq(allStats, LAMBDA d : formatLocalDateKey(d.date) = k)
    IN [i \in 1..Len(keys) |->
          [ date |-> keys[i],
            success |-> SumOver(ofDay(keys[i]), LAMBDA d : computeRecordCounts(d).success),
            failure |-> SumOver(ofDay(keys[i]), LAMBDA d : computeRecordCounts(d).failure),
            other |-> SumOver(ofDay(keys[i]), LAMBDA d : computeRecordCounts(d).other),
            total |-> SumOver(ofDay(keys[i]), LAMBDA d : computeRecordCounts(d).total) ]]

totalCountsOf(allStats) ==
    LET success == SumOver(allStats, LAMBDA d : computeRecordCounts(d).success)
        failure == SumOver(allStats, LAMBDA d : computeRecordCounts(d).failure)
        other == SumOver(allStats, LAMBDA d : computeRecordCounts(d).other)
    IN [success |-> success, failure |-> failure, other |-> other,
        total |-> success + failure + other]

\* GET /chart-data
ChartData(projectId, deviceId, days) ==
    LET today == localDay(clock)
        endDate == endOfLocalDay(today)
        startDate == startOfLocalDay(today - parseInt(days).val + 1)
        allStats == findStats(dashDocs, startDate, endDate,
                              chartDeviceFilter(projectId, deviceId))
    IN /\ NoneInFlight
       /\ reply' = [ endpoint |-> "chart-data", code |-> "200",
                     projectId |-> projectId, deviceId |-> deviceId,
                     query |-> [days |-> days],
                     start |-> formatLocalDateKey(startDate),
                     end |-> formatLocalDateKey(endDate),
                     totalCounts |-> totalCountsOf(allStats),
                     dailyData |-> dailyDataOf(allStats, startDate, endDate) ]
       /\ resp' = [resp EXCEPT ![1] = "200"]
       /\ UNCHANGED <<timezone, projects, statusMgmt, dashDocs, otaUpdates, units, deviceStats,
                      clock, log, procs>>

\* GET /time-stats
TimeStats(projectId, deviceId, startDate, endDate) ==
    LET startParsed == parseDate(startDate)
        endParsed == parseDate(endDate)
        startLocal == startOfLocalDay(localDay(startParsed.val))
        endLocal == endOfLocalDay(localDay(endParsed.val))
        allStats == findStats(dashDocs, startLocal, endLocal,
                              timeDeviceFilter(projectId, deviceId))
    IN /\ NoneInFlight
       /\ IF startDate = <<>> \/ endDate = <<>> \/ startParsed.nan \/ endParsed.nan
          THEN /\ reply' = [endpoint |-> "time-stats", code |-> "400"]
               /\ resp' = [resp EXCEPT ![1] = "400"]
          ELSE /\ reply' = [ endpoint |-> "time-stats", code |-> "200",
                             projectId |-> projectId, deviceId |-> deviceId,
                             query |-> [startDate |-> startDate, endDate |-> endDate],
                             start |-> formatLocalDateKey(startLocal),
                             end |-> formatLocalDateKey(endLocal),
                             totalCounts |-> totalCountsOf(allStats),
                             dailyData |-> dailyDataOf(allStats, startLocal, endLocal) ]
               /\ resp' = [resp EXCEPT ![1] = "200"]
       /\ UNCHANGED <<timezone, projects, statusMgmt, dashDocs, otaUpdates, units, deviceStats,
                      clock, log, procs>>

\* device D1 belongs to project A, device D2 to no project, project B has no device
InitDashboard ==
    /\ statusMgmt = << [deviceId |-> "D1", statusCodes |-> StatusCodesD1] >>
    /\ dashDocs = <<>>
    /\ otaUpdates = <<>>
    /\ units = <<>>
    /\ deviceStats = [d \in Devices |->
                         [ otaStats |-> zeroOtaStats, espStats |-> emptyEspStats,
                           project |-> IF d = "D1" THEN "A" ELSE NoProject ]]
    /\ clock = 0
    /\ resp = [p \in Procs |-> "none"]
    /\ log = <<>>
    /\ procs = [p \in Procs |-> Idle]
    /\ projects = ProjectIds
    /\ reply = NoReply
    /\ timezone \in TimezoneOffsets

DashReport ==
    /\ Len(log) < MaxDashReports
    /\ reply = NoReply
    /\ \E deviceId \in Devices, status \in {S_2, S_0} :
           Report("P1", deviceId, status, V_1_0, V_2_0, "false")

DashTick ==
    /\ reply = NoReply
    /\ Tick

\* one read is observed in a behaviour
ChartDataAny ==
    /\ reply = NoReply
    /\ \E projectId \in ProjectQueries, deviceId \in DeviceQueries, days \in DaysInputs :
           ChartData(projectId, deviceId, days)

TimeStatsAny ==
    /\ reply = NoReply
    /\ \E projectId \in ProjectQueries, deviceId \in DeviceQueries,
          startDate \in DateStrings, endDate \in DateStrings :
           TimeStats(projectId, deviceId, startDate, endDate)

NextDashboard ==
    \/ DashTick
    \/ DashReport
    \/ ChartDataAny
    \/ TimeStatsAny

SpecDashboard == InitDashboard /\ [][NextDashboard]_vars

\* ================================================================== claims
\* accepted reports of one unit of one device on one day, in order of ingestion
ReportsOf(deviceId, pic_id, date) ==
    SelectSeq(log, LAMBDA e : e.deviceId = deviceId /\ e.pic_id = pic_id /\ e.date = date)

\* those of them that report the outcome (success or failure) of an upgrade
OutcomesOf(deviceId, pic_id, date) ==
    SelectSeq(ReportsOf(deviceId, pic_id, date), LAMBDA e :
        e.badge \in {"success", "failure"} /\ e.versionComparison = -1 /\ ~e.isReprogramming)

BadgesOf(entries) == [i \in 1..Len(entries) |-> entries[i].badge]

UnrecoveredOf(doc, pic_id) ==
    CountWhere(doc.failure, LAMBDA r : r.picID = pic_id /\ r.recovered = FALSE)

RecoveredOf(doc, pic_id) ==
    CountWhere(doc.failure, LAMBDA r : r.picID = pic_id /\ r.recovered = TRUE)

SuccessesOf(doc, pic_id) == CountWhere(doc.success, LAMBDA r : r.picID = pic_id)

DocIndexes == 1..Len(dashDocs)

\* C1 (as claimed): a unit whose most recent accepted report of the day has
\* effective badge success has no failure record with recovered = false in the
\* document of that device and day.
C1_SuccessLeavesNoActiveFailure ==
    \A i \in DocIndexes, u \in Pics :
        LET doc == dashDocs[i]
            reports == ReportsOf(doc.deviceId, u, doc.date)
        IN (reports # <<>> /\ reports[Len(reports)].badge = "success")
               => UnrecoveredOf(doc, u) = 0

\* C2: a failure report followed by a success report for the same unit, device
\* and day (both upgrades, reprogramming = false) keeps the failure record with
\* recovered = true, leaves the unit no active failure and exactly one success
\* record; when no other unit failed that day the day's active failure count is 0.
C2_FailureThenSuccessRecovers ==
    \A i \in DocIndexes, u \in Pics :
        LET doc == dashDocs[i]
        IN BadgesOf(OutcomesOf(doc.deviceId, u, doc.date)) = <<"failure", "success">>
               => /\ RecoveredOf(doc, u) = 1
                  /\ UnrecoveredOf(doc, u) = 0
                  /\ SuccessesOf(doc, u) = 1
                  /\ (\A w \in Pics \ {u} : UnrecoveredOf(doc, w) = 0)
                         => computeRecordCounts(doc).failure = 0

C2_Witness ==
    \E i \in DocIndexes, u \in Pics :
        /\ BadgesOf(OutcomesOf(dashDocs[i].deviceId, u, dashDocs[i].date))
               = <<"failure", "success">>
        /\ RecoveredOf(dashDocs[i], u) = 1
        /\ computeRecordCounts(dashDocs[i]).success = 1

\* C3: every daily document holds at most one failure record with
\* recovered = false per unit.
C3_OneUnrecoveredFailurePerUnit ==
    \A i \in DocIndexes, u \in Pics : UnrecoveredOf(dashDocs[i], u) <= 1

\* a unit that failed, succeeded and failed again, then failed once more
C3_Witness ==
    \E i \in DocIndexes, u \in Pics :
        /\ BadgesOf(OutcomesOf(dashDocs[i].deviceId, u, dashDocs[i].date))
               = <<"failure", "success", "failure", "failure">>
        /\ UnrecoveredOf(dashDocs[i], u) = 1
        /\ RecoveredOf(dashDocs[i], u) = 1

FailureLen(coll, deviceId, date) ==
    LET idx == findDashboardStats(coll, deviceId, date)
    IN IF idx = 0 THEN 0 ELSE Len(coll[idx].failure)

\* C4: ingesting a failure report identical to the report ingested just before
\* it (same unit, device, versions and timestamp) leaves the failure bucket of
\* the day as long as it was.
C4_IdenticalFailureIsIdempotent ==
    [][ ( /\ Len(log) >= 1
          /\ log' = Append(log, log[Len(log)])
          /\ log[Len(log)].badge = "failure" )
        => FailureLen(dashDocs', log[Len(log)].deviceId, log[Len(log)].date)
             = FailureLen(dashDocs, log[Len(log)].deviceId, log[Len(log)].date) ]_vars

C4_Witness ==
    /\ Len(log) >= 2
    /\ log[Len(log)] = log[Len(log) - 1]
    /\ log[Len(log)].badge = "failure"
    /\ FailureLen(dashDocs, log[Len(log)].deviceId, log[Len(log)].date) = 1

Holds(doc, e) ==
    LET bucket == CASE e.push = "success" -> doc.success
                    [] e.push = "failure" -> doc.failure
                    [] e.push = "other" -> doc.other
    IN \E k \in 1..Len(bucket) :
           bucket[k].picID = e.pic_id /\ bucket[k].timestamp = e.timestamp

UnitsOf(pic_id, updatedVersion) ==
    {i \in 1..Len(units) : /\ units[i].pic_id = pic_id
                           /\ units[i].updatedVersion = updatedVersion}

IngestsOf(pic_id, updatedVersion, codes) ==
    Cardinality({k \in 1..Len(log) : /\ log[k].pic_id = pic_id
                                     /\ log[k].updatedVersion = updatedVersion
                                     /\ log[k].code \in codes})

\* C7 (as claimed): once the ingests of a pair have been answered, the stored
\* unit holds one attempt per ingest answered with success, and its
\* totalAttempts, successAttempts and failureAttempts equal the counts over the
\* stored attempt list.
C7_CountersMatchStoredAttempts ==
    NoneInFlight =>
        \A i \in 1..Len(units) :
            LET u == units[i]
            IN /\ Len(u.statusEntries) = IngestsOf(u.pic_id, u.updatedVersion, {"201"})
               /\ u.totalAttempts = Len(u.statusEntries)
               /\ u.successAttempts = CountWhere(u.statusEntries, countsAsSuccess)
               /\ u.failureAttempts = CountWhere(u.statusEntries, countsAsFailure)

\* C8 (as claimed): no ingest is answered with the duplicate-key error, and once
\* the ingests of a pair have been answered its unit holds one attempt for each
\* of them, the loser of a creation race included.
C8_CreationRaceIsRetried ==
    /\ \A k \in 1..Len(log) : log[k].code # "409"
    /\ NoneInFlight =>
           \A pic_id \in Pics :
               IngestsOf(pic_id, V_2_0, {"201", "409"}) > 0 =>
                   \E i \in UnitsOf(pic_id, V_2_0) :
                       Len(units[i].statusEntries)
                           = IngestsOf(pic_id, V_2_0, {"201", "409"})

\* C9: after non-overlapping ingests there is exactly one unit record per
\* reported (unit id, updated version), holding one attempt per accepted ingest
\* of the pair, and no record for a pair that was never reported.
C9_OneUnitPerPairOneAttemptPerIngest ==
    \A pic_id \in Pics, updatedVersion \in Versions :
        LET n == IngestsOf(pic_id, updatedVersion, {"201"})
        IN IF n = 0 THEN UnitsOf(pic_id, updatedVersion) = {}
           ELSE \E i \in 1..Len(units) :
                    /\ UnitsOf(pic_id, updatedVersion) = {i}
                    /\ Len(units[i].statusEntries) = n
                    /\ units[i].statusEntries[n].attemptNumber = n

C9_Witness ==
    \E i \in 1..Len(units) :
        /\ Len(units[i].statusEntries) = 2
        /\ \E k \in 1..Len(log) : /\ ~log[k].wasNew
                                  /\ log[k].pic_id = units[i].pic_id
                                  /\ log[k].updatedVersion = units[i].updatedVersion

\* the last accepted report, and the sizes of the buckets of a device's day
LastReport(history) == history[Len(history)]

BucketSizes(coll, deviceId, date) ==
    LET docs == {i \in 1..Len(coll) : coll[i].deviceId = deviceId /\ coll[i].date = date}
    IN IF docs = {} THEN [success |-> 0, failure |-> 0, other |-> 0]
       ELSE LET i == CHOOSE i \in docs : \A j \in docs : i <= j
            IN [ success |-> Len(coll[i].success), failure |-> Len(coll[i].failure),
                 other |-> Len(coll[i].other) ]

\* C11: an accepted report with reprogramming = true whose status resolves to
\* success adds exactly one record to the other bucket of the device's day and
\* none to the success or failure bucket, for every pair of versions.
C11_ReprogrammingSuccessCountsAsOther ==
    [][ ( /\ Len(log') = Len(log) + 1
          /\ LastReport(log').isReprogramming
          /\ LastReport(log').baseBadge = "success" )
        => LET e == LastReport(log')
               before == BucketSizes(dashDocs, e.deviceId, e.date)
               after == BucketSizes(dashDocs', e.deviceId, e.date)
           IN /\ e.badge = "other"
              /\ after.other = before.other + 1
              /\ after.success = before.success
              /\ after.failure = before.failure ]_vars

C11_Witness ==
    \E k \in 1..Len(log), i \in DocIndexes :
        /\ log[k].isReprogramming
        /\ log[k].baseBadge = "success"
        /\ log[k].versionComparison = -1
        /\ dashDocs[i].deviceId = log[k].deviceId
        /\ \E r \in 1..Len(dashDocs[i].other) :
               /\ dashDocs[i].other[r].reprogramming
               /\ dashDocs[i].other[r].picID = log[k].pic_id
        /\ dashDocs[i].success = <<>>

\* C12: a report whose status resolves to failure has effective badge failure,
\* for every reprogramming flag and every version comparison.
C12_FailureIsNeverDowngraded ==
    \A k \in 1..Len(log) : log[k].baseBadge = "failure" => log[k].badge = "failure"

C12_Witness ==
    \E a \in 1..Len(log), b \in 1..Len(log) :
        /\ log[a].baseBadge = "failure" /\ log[a].versionComparison = 0
        /\ ~log[a].isReprogramming
        /\ log[b].baseBadge = "failure" /\ log[b].isReprogramming

\* C13 (as claimed): without reprogramming, equal versions with resolved badge
\* success or other give other, an upgrade keeps success and failure, and a
\* regression gives failure for any resolved badge.
C13_PolicyMatrixWithoutReprogramming ==
    \A k \in 1..Len(log) :
        ~log[k].isReprogramming =>
            /\ (log[k].versionComparison = 0 /\ log[k].baseBadge \in {"success", "other"})
                   => log[k].badge = "other"
            /\ (log[k].versionComparison = -1 /\ log[k].baseBadge \in {"success", "failure"})
                   => log[k].badge = log[k].baseBadge
            /\ log[k].versionComparison = 1 => log[k].badge = "failure"

\* C14 (as claimed): a report whose updatedVersion is the string "0.0" is
\* classified as failure, whatever else it carries.
C14_ZeroVersionIsFailure ==
    \A k \in 1..Len(log) : log[k].updatedVersion = V_0_0 => log[k].badge = "failure"

\* C15 (as claimed): every accepted report reaches the daily document: one with
\* effective badge failure leaves an unrecovered failure record of its unit in
\* the document of the day, one with effective badge other or success appends
\* one record to that bucket.
C15_EveryAcceptedReportIsAggregated ==
    [][ Len(log') = Len(log) + 1
        => LET e == LastReport(log')
               before == BucketSizes(dashDocs, e.deviceId, e.date)
               after == BucketSizes(dashDocs', e.deviceId, e.date)
           IN CASE e.badge = "failure" ->
                       \E i \in 1..Len(dashDocs') :
                           /\ dashDocs'[i].deviceId = e.deviceId
                           /\ dashDocs'[i].date = e.date
                           /\ \E r \in 1..Len(dashDocs'[i].failure) :
                                  /\ dashDocs'[i].failure[r].picID = e.pic_id
                                  /\ ~dashDocs'[i].failure[r].recovered
                [] e.badge = "other" -> after.other = before.other + 1
                [] e.badge = "success" -> after.success = before.success + 1 ]_vars

\* the integer a dot-separated segment stands for: 0 when it is missing or
\* does not start with a digit
SegmentValue(version, i) ==
    LET parts == SplitDot(version, <<>>)
    IN IF i > Len(parts) THEN 0
       ELSE IF LeadingDigits(parts[i]) = <<>> THEN 0
       ELSE DigitsValue(LeadingDigits(parts[i]), 0)

SegmentCount(version) == Len(SplitDot(version, <<>>))

FirstDifference(a, b) ==
    LET n == Max(SegmentCount(a), SegmentCount(b))
        differing == {i \in 1..n : SegmentValue(a, i) # SegmentValue(b, i)}
    IN IF differing = {} THEN 0
       ELSE LET i == CHOOSE i \in differing : \A j \in differing : i <= j
            IN IF SegmentValue(a, i) < SegmentValue(b, i) THEN -1 ELSE 1

\* C16: compareVersions decides by the first differing segment, compared as
\* integers after padding with zero segments; "1.2" against "1.10" is lower,
\* "1.10" against "1.2" is higher, "1" against "1.0" is equal, and
\* compare(a, b) is the opposite of compare(b, a).
C16_FirstDifferingSegmentDecides ==
    \A k \in 1..Len(log) :
        LET a == log[k].previousVersion
            b == log[k].updatedVersion
        IN /\ log[k].versionComparison = FirstDifference(a, b)
           /\ log[k].versionComparison = 0 - compareVersions(b, a)
           /\ (a = V_1_2 /\ b = V_1_10) => log[k].versionComparison = -1
           /\ (a = V_1_10 /\ b = V_1_2) => log[k].versionComparison = 1
           /\ (a = V_1 /\ b = V_1_0) => log[k].versionComparison = 0

C16_Witness ==
    \E j \in 1..Len(log), k \in 1..Len(log) :
        /\ log[j].previousVersion = V_1_2 /\ log[j].updatedVersion = V_1_10
        /\ log[j].versionComparison = -1
        /\ log[k].previousVersion = V_1 /\ log[k].updatedVersion = V_1_x
        /\ log[k].versionComparison = 0

\* the final status the badges of a unit's attempts stand for: success and
\* failure decide, other leaves what was there, pending before any attempt
RECURSIVE FinalStatusByBadges(_)
FinalStatusByBadges(entries) ==
    IF entries = <<>> THEN "pending"
    ELSE LET latest == entries[Len(entries)]
         IN IF latest.badge = "success" THEN "success"
            ELSE IF latest.badge = "failure" THEN "failed"
            ELSE FinalStatusByBadges(SubSeq(entries, 1, Len(entries) - 1))

\* C17 (as claimed): after each appended attempt the unit's finalStatus is
\* success when the attempt's badge is success, failed when it is failure, and
\* what it was before when the badge is other, whatever the raw status code.
C17_FinalStatusFollowsBadges ==
    \A i \in 1..Len(units) :
        units[i].finalStatus = FinalStatusByBadges(units[i].statusEntries)

\* C18 (as claimed): a unit's totalAttempts is the number of its attempts,
\* successAttempts the number whose badge is success and failureAttempts the
\* number whose badge is failure, so no attempt is counted in both.
C18_CountersCountBadges ==
    \A i \in 1..Len(units) :
        LET u == units[i]
        IN /\ u.totalAttempts = Len(u.statusEntries)
           /\ u.successAttempts
                  = Cardinality({k \in 1..Len(u.statusEntries) :
                                     u.statusEntries[k].badge = "success"})
           /\ u.failureAttempts
                  = Cardinality({k \in 1..Len(u.statusEntries) :
                                     u.statusEntries[k].badge = "failure"})
           /\ u.successAttempts + u.failureAttempts <= u.totalAttempts

\* the badge the device's configuration names for a raw status: "" when the
\* status is not an integer, the device has no configuration, or no entry matches
ConfiguredBadge(deviceId, rawStatus) ==
    LET code == parseInt(rawStatus)
        configs == {i \in 1..Len(statusMgmt) : statusMgmt[i].deviceId = deviceId}
    IN IF code.nan \/ configs = {} THEN ""
       ELSE LET sm == CHOOSE i \in configs : \A j \in configs : i <= j
                entries == {k \in 1..Len(statusMgmt[sm].statusCodes) :
                                statusMgmt[sm].statusCodes[k].code = code.val}
            IN IF entries = {} THEN ""
               ELSE statusMgmt[sm].statusCodes[
                        CHOOSE k \in entries : \A j \in entries : k <= j].badge

\* C19 (as claimed): when the raw status is an integer the device's
\* configuration has an entry for, the badge the resolver gives the attempt is
\* that entry's badge, for every code, the codes 0, 1, 2 and 3 included.
C19_ConfiguredEntryDecidesTheBadge ==
    \A k \in 1..Len(log) :
        (log[k].handler = "ingest" /\ ConfiguredBadge(log[k].deviceId, log[k].status) # "")
            => log[k].badge = ConfiguredBadge(log[k].deviceId, log[k].status)

Rejections == {"400", "404 config", "404 code"}

\* C20: a request answered with a rejection (a required field missing, no
\* status configuration for the device, no entry for the reported code) changes
\* nothing: no unit, attempt record or daily document is created or modified.
C20_RejectionChangesNothing ==
    [][ ( /\ \E p \in Procs : resp'[p] \in Rejections
          /\ Len(log') = Len(log) )
        => UNCHANGED <<statusMgmt, dashDocs, otaUpdates, units, deviceStats>> ]_vars

C20_Witness ==
    /\ resp[1] = "404 code"
    /\ Len(log) = 1
    /\ Len(otaUpdates) = 1
    /\ Len(dashDocs) = 1

\* the elements of a list, and whether it lists each of them once
ElementsOf(seq) == {seq[i] : i \in 1..Len(seq)}

NoRepeats(seq) == \A i \in 1..Len(seq), j \in 1..Len(seq) : seq[i] = seq[j] => i = j

\* the units of a device at a version with at least one counted success / failure
PicsWithSuccessAt(deviceId, version) ==
    {units[i].pic_id : i \in {k \in 1..Len(units) :
        /\ units[k].deviceId = deviceId /\ units[k].updatedVersion = version
        /\ units[k].successAttempts > 0}}

PicsWithFailureAt(deviceId, version) ==
    {units[i].pic_id : i \in {k \in 1..Len(units) :
        /\ units[k].deviceId = deviceId /\ units[k].updatedVersion = version
        /\ units[k].failureAttempts > 0}}

VersionsOfDevice(deviceId) ==
    {units[i].updatedVersion : i \in {k \in 1..Len(units) : units[k].deviceId = deviceId}}

RECURSIVE SumOfSizes(_, _, _)
SumOfSizes(versions, deviceId, success) ==
    IF versions = {} THEN 0
    ELSE LET v == CHOOSE v \in versions : TRUE
         IN Cardinality(IF success THEN PicsWithSuccessAt(deviceId, v)
                        ELSE PicsWithFailureAt(deviceId, v))
                + SumOfSizes(versions \ {v}, deviceId, success)

\* C21: the ESP statistics stored by the last ingest of a device group its
\* units by updated version: one entry per version, whose success and failure
\* sets are the units with a success, respectively a failure, at that version;
\* the totals are the sums of the per-version set sizes, and the overall lists
\* name each unit once across all versions.
C21_EspStatsGroupByVersion ==
    log # <<>> =>
        LET d == log[Len(log)].deviceId
            esp == deviceStats[d].espStats
            by == esp.byFirmwareVersion
            vs == VersionsOfDevice(d)
        IN vs # {} =>
              /\ {by[i].version : i \in 1..Len(by)} = vs
              /\ Len(by) = Cardinality(vs)
              /\ \A i \in 1..Len(by) :
                     /\ ElementsOf(by[i].picIdsWithSuccess) = PicsWithSuccessAt(d, by[i].version)
                     /\ ElementsOf(by[i].picIdsWithFailure) = PicsWithFailureAt(d, by[i].version)
                     /\ NoRepeats(by[i].picIdsWithSuccess)
                     /\ NoRepeats(by[i].picIdsWithFailure)
                     /\ by[i].picsWithSuccess = Cardinality(PicsWithSuccessAt(d, by[i].version))
                     /\ by[i].picsWithFailure = Cardinality(PicsWithFailureAt(d, by[i].version))
              /\ esp.totalPicsWithSuccess = SumOfSizes(vs, d, TRUE)
              /\ esp.totalPicsWithFailure = SumOfSizes(vs, d, FALSE)
              /\ ElementsOf(esp.picsWithSuccess)
                     = UNION {PicsWithSuccessAt(d, v) : v \in vs}
              /\ ElementsOf(esp.picsWithFailure)
                     = UNION {PicsWithFailureAt(d, v) : v \in vs}
              /\ NoRepeats(esp.picsWithSuccess)
              /\ NoRepeats(esp.picsWithFailure)

\* one unit id updated to two versions: counted twice in the total, listed once
C21_Witness ==
    /\ Len(log) = 2
    /\ LET esp == deviceStats[log[2].deviceId].espStats
       IN /\ Len(esp.byFirmwareVersion) = 2
          /\ esp.totalPicsWithSuccess = 2
          /\ Len(esp.picsWithSuccess) = 1

\* C22 (as claimed): no stored status configuration holds two entries with the
\* same code, after any sequence of create, update and copy.
C22_CodesAreUniquePerConfiguration ==
    \A i \in 1..Len(statusMgmt) :
        \A a \in 1..Len(statusMgmt[i].statusCodes), b \in 1..Len(statusMgmt[i].statusCodes) :
            statusMgmt[i].statusCodes[a].code = statusMgmt[i].statusCodes[b].code => a = b

\* C23 (as claimed): a device has at most one status configuration document,
\* interleaved create and copy requests included.
C23_OneConfigurationPerDevice ==
    \A i \in 1..Len(statusMgmt), j \in 1..Len(statusMgmt) :
        statusMgmt[i].deviceId = statusMgmt[j].deviceId => i = j

\* the code a status parses to is 2 or 3
IsSuccessCode(status) ==
    LET code == parseInt(status) IN ~code.nan /\ code.val \in {2, 3}

\* C25 (as claimed): for a record whose attempts carry no configured badge,
\* the attempts with code 2 or 3 are the successes, every other attempt is a
\* failure, and the final status follows the latest attempt in the same way.
C25_OnlyTwoAndThreeSucceed ==
    \A i \in 1..Len(units) :
        LET u == units[i]
            n == Len(u.statusEntries)
        IN (n > 0 /\ \A k \in 1..n : u.statusEntries[k].badge = "other") =>
              /\ u.successAttempts = CountWhere(u.statusEntries, LAMBDA e : IsSuccessCode(e.status))
              /\ u.failureAttempts = CountWhere(u.statusEntries, LAMBDA e : ~IsSuccessCode(e.status))
              /\ u.finalStatus = IF IsSuccessCode(u.statusEntries[n].status)
                                 THEN "success" ELSE "failed"

\* C26 (as claimed): every attempt ingested with a device id is stored in a
\* record of that device; an accepted attempt leaves the records of the other
\* devices as they were.
C26_AttemptsStayWithTheirDevice ==
    [][ (Len(log') = Len(log) + 1 /\ log'[Len(log')].handler \in {"ingest", "legacy"}) =>
          LET e == log'[Len(log')]
          IN /\ \E i \in 1..Len(units') :
                   /\ units'[i].deviceId = e.deviceId
                   /\ units'[i].pic_id = e.pic_id
                   /\ units'[i].updatedVersion = e.updatedVersion
                   /\ units'[i].statusEntries # <<>>
                   /\ units'[i].statusEntries[Len(units'[i].statusEntries)].status = e.status
             /\ \A d \in Devices \ {e.deviceId} :
                   unitsOfDevice(units', d) = unitsOfDevice(units, d) ]_vars

\* C27 (as claimed): after a record is deleted the stored ESP statistics of
\* its device equal the statistics of the records the device still has, also
\* when none is left.
C27_EspStatsFollowDeletion ==
    (Len(log) > 0 /\ log[Len(log)].handler = "delete") =>
        LET d == log[Len(log)].deviceId
        IN deviceStats[d].espStats = computeEspStats(unitsOfDevice(units, d))

\* C28 (as claimed): when a project is deleted, every configuration of a device
\* that was in the project and was based on another device that was in the
\* project has its inheritance cleared.
C28_DeletionClearsInheritance ==
    [][ \A id \in ProjectIds :
          (id \in projects /\ id \notin projects') =>
              \A i \in 1..Len(statusMgmt) :
                  ( /\ statusMgmt[i].deviceId \in devicesOfProject(deviceStats, id)
                    /\ statusMgmt[i].isBasedOnOtherDevice
                    /\ statusMgmt[i].baseDeviceId \in devicesOfProject(deviceStats, id) ) =>
                      /\ ~statusMgmt'[i].isBasedOnOtherDevice
                      /\ statusMgmt'[i].baseDeviceId = "" ]_vars

\* a read endpoint has just answered 200
Answered(endpoint) ==
    /\ reply = NoReply
    /\ reply' # NoReply
    /\ reply'.endpoint = endpoint
    /\ reply'.code = "200"

\* the devices a query selects: the named device, else the devices of the named
\* project, else every device
SelectedDevices(projectId, deviceId) ==
    IF deviceId # "" THEN {deviceId}
    ELSE IF projectId # "" THEN devicesOfProject(deviceStats, projectId)
    ELSE Devices

\* the counts of the stored documents of the given devices on a day
CountsOn(day, devices) ==
    LET docs == SelectSeq(dashDocs, LAMBDA d : localDay(d.date) = day /\ d.deviceId \in devices)
        success == SumOver(docs, LAMBDA d : computeRecordCounts(d).success)
        failure == SumOver(docs, LAMBDA d : computeRecordCounts(d).failure)
        other == SumOver(docs, LAMBDA d : computeRecordCounts(d).other)
    IN [success |-> success, failure |-> failure, other |-> other,
        total |-> success + failure + other]

\* the daily entries are the days first..last in ascending order, and a day
\* without a stored document of the selected devices is all zeros
OneEntryPerDay(body, first, last) ==
    /\ Len(body.dailyData) = Max(last - first + 1, 0)
    /\ \A i \in 1..Len(body.dailyData) :
          LET e == body.dailyData[i]
          IN /\ e.date = first + i - 1
             /\ CountsOn(e.date, SelectedDevices(body.projectId, body.deviceId)).total = 0 =>
                   /\ e.success = 0
                   /\ e.failure = 0
                   /\ e.other = 0
                   /\ e.total = 0

\* C24 (as claimed): chart-data and time-stats answer with exactly one entry for
\* every calendar day of the queried range, in ascending date order, and a day
\* with no stored document of the selected devices is zero-filled.
C24_OneEntryPerDayOfTheRange ==
    [][ /\ Answered("chart-data") =>
              LET today == localDay(clock)
              IN OneEntryPerDay(reply', today - parseInt(reply'.query.days).val + 1, today)
        /\ Answered("time-stats") =>
              OneEntryPerDay(reply', parseInt(reply'.query.startDate).val,
                             parseInt(reply'.query.endDate).val) ]_vars

\* C29 (as claimed): chart-data for a project and no device aggregates the
\* documents of the devices of that project only; for a project without
\* devices every total and every daily count is 0.
C29_ChartDataStaysInsideTheProject ==
    [][ (Answered("chart-data") /\ reply'.projectId # "" /\ reply'.deviceId = "") =>
          LET devices == devicesOfProject(deviceStats, reply'.projectId)
              sumOf(Field(_)) == SumOver(reply'.dailyData, Field)
          IN /\ \A i \in 1..Len(reply'.dailyData) :
                   LET e == reply'.dailyData[i]
                       c == CountsOn(e.date, devices)
                   IN /\ e.success = c.success
                      /\ e.failure = c.failure
                      /\ e.other = c.other
                      /\ e.total = c.total
             /\ reply'.totalCounts.success = sumOf(LAMBDA e : e.success)
             /\ reply'.totalCounts.failure = sumOf(LAMBDA e : e.failure)
             /\ reply'.totalCounts.other = sumOf(LAMBDA e : e.other)
             /\ reply'.totalCounts.total = sumOf(LAMBDA e : e.total) ]_vars

\* C30 (as claimed): once every ingest of a set of concurrent ingests of a
\* device has been answered, the stored otaStats and espStats of the device
\* equal the values recomputed from the records stored at that moment.
C30_StatsMatchRecordsAfterIngests ==
    NoneInFlight =>
        \A d \in Devices :
            (\E k \in 1..Len(log) : log[k].deviceId = d /\ log[k].code = "201") =>
                /\ deviceStats[d].otaStats = computeOtaStats(unitsOfDevice(units, d))
                /\ deviceStats[d].espStats = computeEspStats(unitsOfDevice(units, d))

====
